---------------------------- MODULE Spec2Model ----------------------------
(***************************************************************************)
(* Model of eframe's native frame integration (EpiIntegration,             *)
(* crates/eframe/src/native/epi_integration.rs): the close protocol, the   *)
(* pending output buffer, the first-paint reveal, the autosave timer and   *)
(* the save sequence; and of the window geometry computed before the       *)
(* window exists (viewport_builder, largest_monitor_point_size), as built  *)
(* for the targets other than iOS.                                         *)
(***************************************************************************)
EXTENDS Integers, Sequences, FiniteSets, TLC

VARIABLES
    now,                 \* the clock read by Instant::now()
    close,               \* EpiIntegration.close
    is_first_frame,      \* EpiIntegration.is_first_frame
    can_drag_window,     \* EpiIntegration.can_drag_window
    last_auto_save,      \* EpiIntegration.last_auto_save
    beginning,           \* EpiIntegration.beginning
    pending_full_output, \* EpiIntegration.pending_full_output
    cpu_usage,           \* EpiIntegration.frame.info.cpu_usage
    storage,             \* EpiIntegration.frame.storage
    persist_window,      \* EpiIntegration.persist_window
    auto_save_interval,  \* what App::auto_save_interval() returns
    window_visible,      \* the native window's visibility
    last,                \* what the latest operation was given, did and returned
    hist,                \* history of the session (never read by the program)
    native_options,      \* the epi::NativeOptions given to viewport_builder
    event_loop,          \* the monitors the event loop reports
    built,               \* what the latest geometry computation was given and returned
    driver               \* the event loop's driver: its state and its latest call

vars == <<now, close, is_first_frame, can_drag_window, last_auto_save, beginning,
          pending_full_output, cpu_usage, storage, persist_window,
          auto_save_interval, window_visible, last, hist,
          native_options, event_loop, built, driver>>

\* the state of the integration and the state of the window creation
integration_vars ==
    <<now, close, is_first_frame, can_drag_window, last_auto_save, beginning,
      pending_full_output, cpu_usage, storage, persist_window,
      auto_save_interval, window_visible, last, hist>>

creation_vars == <<native_options, event_loop, built, driver>>

----------------------------------------------------------------------------
(* Bounds of the model *)

\* the clock runs from 0 to MaxTime
MaxTime == 2

\* the longest autosave interval an application configures
MaxInterval == 1

\* the largest number of meshes one UI pass outputs
MaxPassMeshes == 1

\* the largest number of monitors the event loop reports
MaxMonitors == 2

----------------------------------------------------------------------------
(* Values *)

\* Option<T>: None is the empty sequence, Some(x) the sequence of x alone;
\* an absent callback is the string None
NoneOpt == << >>

Some(x) == <<x>>

None == "None"

MeshIds == {"m1"}

\* the viewport commands a pass can emit for the ROOT viewport
Commands == {"CancelClose"}

\* the native windows that save can be given, by their geometry in points
Windows ==
    {[position |-> <<10, 20>>, inner_size |-> <<800, 600>>, maximized |-> FALSE],
     [position |-> <<-50, -50>>, inner_size |-> <<4000, 4000>>, maximized |-> TRUE]}

\* frame times reported to report_frame_time
FrameTimes == {1}

\* what App::raw_input_hook does to the close request and the time of the raw input
Hooks == {"keep", "clear_close", "set_close", "clear_time"}

\* the window events on_window_event tells apart
WindowEvents == {"LeftPressed", "RightPressed", "LeftReleased", "Other"}

\* egui_zoom_factor
ZoomFactors == {1, 2}

\* A monitor: its current video mode's physical size, if it has a mode, and
\* its scale factor.  The sizes are multiples of twice every zoom factor times
\* every scale factor, so that the divisions of f32 are exact in integers.
Monitors ==
    {[video_mode |-> NoneOpt, scale_factor |-> 1],
     [video_mode |-> Some(<<0, 0>>), scale_factor |-> 1],
     [video_mode |-> Some(<<1920, 1080>>), scale_factor |-> 1],
     [video_mode |-> Some(<<2560, 2880>>), scale_factor |-> 2]}

\* the inner sizes and the positions an application requests, in points
RequestedSizes == {<<1000, 600>>}

RequestedPositions == {<<100, 100>>}

\* the window settings restored from an earlier session
RestoredSettings ==
    {[position |-> Some(<<-50, -50>>), inner_size_points |-> Some(<<4000, 4000>>),
      maximized |-> FALSE],
     [position |-> Some(<<5000, 5000>>), inner_size_points |-> Some(<<800, 600>>),
      maximized |-> TRUE],
     [position |-> Some(<<100, 100>>), inner_size_points |-> NoneOpt,
      maximized |-> FALSE]}

\* what a NativeOptions::window_builder hook does to the builder it is given
WindowBuilderHooks == {"shift"}

\* the names and titles of applications, and the renderers they choose
AppNames == {"my_app"}

Titles == {"My Title"}

Renderers == {"Glow", "Wgpu"}

\* EFRAME_SCREENSHOT_TO in the environment: not there, there with a value
\* that is valid Unicode, there with a value that is not
ScreenshotEnvs == {"unset", "unicode", "not_unicode"}

\* the areas the UI memory can hold
Areas == {"settings_window"}

RECURSIVE SeqsUpTo(_, _)
SeqsUpTo(S, n) ==
    IF n = 0 THEN {<< >>}
    ELSE LET shorter == SeqsUpTo(S, n - 1)
         IN  shorter \cup {Append(s, x) : s \in {t \in shorter : Len(t) = n - 1}, x \in S}

\* egui::FullOutput, as far as the integration reads it: the paint output and
\* the commands of the ROOT viewport
DefaultFullOutput == [meshes |-> << >>, commands |-> {}]

PassOutputs ==
    [meshes : SeqsUpTo(MeshIds, MaxPassMeshes), commands : SUBSET Commands]

\* FullOutput::append: accumulation of the newer output into the older one
AppendFullOutput(older, newer) ==
    [meshes |-> older.meshes \o newer.meshes,
     commands |-> older.commands \cup newer.commands]

\* Options::max_passes as set by create_egui_context
max_passes == 2

----------------------------------------------------------------------------
(* The operations' pure parts *)

\* as UiCalls, but a pass of the root viewport's closure runs for a child too
UiCalls_AlwaysApp(viewport_ui_cb, passes) ==
    [i \in 1..passes |-> "App::update"]

\* The closure given to Context::run, invoked once per pass of the run:
\* the child viewport's callback when one is given, App::update otherwise.
UiCalls(viewport_ui_cb, passes) ==
    [i \in 1..passes |->
        IF viewport_ui_cb # None THEN "viewport_ui_cb" ELSE "App::update"]

\* as CloseDecision, without looking for CancelClose in the output
CloseDecision_NoVeto(is_root_viewport, close_requested, canceled) ==
    IF is_root_viewport /\ close_requested THEN TRUE ELSE close

\* as CloseDecision, but a veto clears the flag
CloseDecision_VetoClears(is_root_viewport, close_requested, canceled) ==
    IF is_root_viewport /\ close_requested
    THEN IF canceled THEN FALSE ELSE TRUE
    ELSE close

\* as CloseDecision, for child viewports as well
CloseDecision_AnyViewport(is_root_viewport, close_requested, canceled) ==
    IF close_requested
    THEN IF canceled THEN close ELSE TRUE
    ELSE close

\* as CloseDecision, but a vetoed close request is tried again in later passes
CloseDecision_Retry(is_root_viewport, close_requested, canceled) ==
    IF is_root_viewport /\ (close_requested \/ hist.veto_seen)
    THEN IF canceled THEN close ELSE TRUE
    ELSE close

\* The close flag after update's decision on the pass output.
CloseDecision(is_root_viewport, close_requested, canceled) ==
    IF is_root_viewport /\ close_requested
    THEN IF canceled THEN close ELSE TRUE
    ELSE close

\* as TakePending, with a clone in place of the take: the buffer is kept
TakePending_Clone(buffer) ==
    [returned |-> buffer, left |-> buffer]

\* as TakePending, but the buffer is swapped out before the append is seen
TakePending_Stale(buffer) ==
    [returned |-> DefaultFullOutput, left |-> DefaultFullOutput]

\* std::mem::take(&mut self.pending_full_output)
TakePending(buffer) ==
    [returned |-> buffer, left |-> DefaultFullOutput]

\* as TakeFirstFrame, with a read in place of the take
TakeFirstFrame_Read(flag) ==
    [was |-> flag, left |-> flag]

\* std::mem::take(&mut self.is_first_frame)
TakeFirstFrame(flag) ==
    [was |-> flag, left |-> FALSE]

\* as CanDragAfter, with an assignment in place of the |=
CanDragAfter_Assigned(can_drag, event) ==
    IF event \in {"LeftPressed", "RightPressed"}
    THEN event = "LeftPressed"
    ELSE can_drag

\* on_window_event's update of can_drag_window: a press of a pointer button
\* sets the flag if the button is the left one and leaves it otherwise
CanDragAfter(can_drag, event) ==
    IF event \in {"LeftPressed", "RightPressed"}
    THEN (can_drag \/ event = "LeftPressed")
    ELSE can_drag

\* the EventResponse of egui_winit::State::on_window_event for an event
TranslatorResponse(event) ==
    [consumed |-> FALSE, repaint |-> event # "Other"]

\* as AutosaveDue, with >= for >
AutosaveDue_Inclusive(t, last_save, interval) ==
    t - last_save >= interval

\* now - self.last_auto_save > app.auto_save_interval()
AutosaveDue(t, last_save, interval) ==
    t - last_save > interval

\* the timer reset by every call of maybe_autosave
TimerAfter_EveryCall(due, t, last_save) == t

\* self.last_auto_save after maybe_autosave: now, inside the `if` alone
TimerAfter(due, t, last_save) == IF due THEN t ELSE last_save

\* as SaveOps, with the later steps nested in the window-geometry step
SaveOps_Nested(window, persist_win, persist_egui_memory) ==
    IF window # NoneOpt /\ persist_win
    THEN <<"set_window">>
         \o (IF persist_egui_memory THEN <<"set_egui">> ELSE << >>)
         \o <<"App::save">>
         \o <<"flush">>
    ELSE << >>

\* as SaveOps, with the UI memory written only along with the window geometry
SaveOps_MemoryWithWindow(window, persist_win, persist_egui_memory) ==
    (IF window # NoneOpt /\ persist_win
     THEN <<"set_window">> \o (IF persist_egui_memory THEN <<"set_egui">> ELSE << >>)
     ELSE << >>)
    \o <<"App::save">>
    \o <<"flush">>

\* The storage operations of one save call on a present storage, in order.
SaveOps(window, persist_win, persist_egui_memory) ==
    (IF window # NoneOpt /\ persist_win THEN <<"set_window">> ELSE << >>)
    \o (IF persist_egui_memory THEN <<"set_egui">> ELSE << >>)
    \o <<"App::save">>
    \o <<"flush">>

STORAGE_EGUI_MEMORY_KEY == "egui"

STORAGE_WINDOW_KEY == "window"

\* WindowSettings::from_window: the settings that describe a native window
WindowSettingsFromWindow(window) ==
    [position |-> Some(window.position),
     inner_size_points |-> Some(window.inner_size),
     maximized |-> window.maximized]

\* The stored text of an Option<(a, b)>: a presence mark and the two numbers.
SerializeOptPair(opt) ==
    IF opt = NoneOpt THEN <<0, 0, 0>> ELSE <<1, opt[1][1], opt[1][2]>>

\* The text epi::set_value stores for window settings: the fields one after
\* the other, position, size and the maximized flag.
SerializeWindowSettings(ws) ==
    SerializeOptPair(ws.position)
    \o SerializeOptPair(ws.inner_size_points)
    \o <<IF ws.maximized THEN 1 ELSE 0>>

\* One Option<(a, b)> read from a stored text at the given place.
ParseOptPair(text, at) ==
    IF text[at] = 0 THEN NoneOpt ELSE Some(<<text[at + 1], text[at + 2]>>)

\* The window settings epi::get_value reads from a stored text; None for a
\* text that is not the text of window settings.
DeserializeWindowSettings(text) ==
    IF /\ Len(text) = 7
       /\ text[1] \in {0, 1} /\ text[4] \in {0, 1} /\ text[7] \in {0, 1}
    THEN Some([position |-> ParseOptPair(text, 1),
               inner_size_points |-> ParseOptPair(text, 4),
               maximized |-> text[7] = 1])
    ELSE NoneOpt

\* egui::Memory::default() and the memory of an application that has run
DefaultMemory == [areas |-> {}]

AppMemory == [areas |-> Areas]

\* the elements of a set of strings one after the other
RECURSIVE SetToSeq(_)
SetToSeq(S) ==
    IF S = {} THEN << >>
    ELSE LET x == CHOOSE y \in S : TRUE IN <<x>> \o SetToSeq(S \ {x})

\* The text epi::set_value stores for a UI memory: its areas by name.
SerializeMemory(memory) == SetToSeq(memory.areas)

\* The UI memory epi::get_value reads from a stored text; None for a text
\* that is not the text of a memory.
DeserializeMemory(text) ==
    IF \A i \in 1..Len(text) : text[i] \in Areas
    THEN Some([areas |-> {text[i] : i \in 1..Len(text)}])
    ELSE NoneOpt

\* One storage operation applied to the store's content.
ApplyStorageOp(st, op, window) ==
    CASE op = "set_window" ->
            [st EXCEPT ![STORAGE_WINDOW_KEY] =
                           Some(SerializeWindowSettings(WindowSettingsFromWindow(window[1]))),
                       !.durable = FALSE]
      [] op = "set_egui"   ->
            [st EXCEPT ![STORAGE_EGUI_MEMORY_KEY] = Some(SerializeMemory(AppMemory)),
                       !.durable = FALSE]
      [] op = "App::save"  -> [st EXCEPT !.app = Some("state"), !.durable = FALSE]
      [] op = "flush"      -> [st EXCEPT !.durable = TRUE]

RECURSIVE ApplyStorageOps(_, _, _)
ApplyStorageOps(st, ops, window) ==
    IF ops = << >> THEN st
    ELSE ApplyStorageOps(ApplyStorageOp(st, Head(ops), window), Tail(ops), window)

\* as Save, with App::save and the flush outside the test for a storage
Save_Unconditional(st, window, persist_egui_memory) ==
    IF st = NoneOpt
    THEN [ops |-> <<"App::save", "flush">>, storage |-> st]
    ELSE LET ops == SaveOps(window, persist_window, persist_egui_memory)
         IN  [ops |-> ops, storage |-> Some(ApplyStorageOps(st[1], ops, window))]

\* EpiIntegration::save: the storage operations performed and the storage left.
\* The body is compiled with the persistence feature only; without the
\* feature create_storage and create_storage_with_file return None, so a
\* present storage means a build with the feature.
Save(st, window, persist_egui_memory) ==
    IF st = NoneOpt
    THEN [ops |-> << >>, storage |-> st]
    ELSE LET ops == SaveOps(window, persist_window, persist_egui_memory)
         IN  [ops |-> ops, storage |-> Some(ApplyStorageOps(st[1], ops, window))]

\* load_window_settings as built without the persistence feature
load_window_settings_NoPersistence(_storage) == NoneOpt

\* load_window_settings: the window settings stored under the window key,
\* None without a storage, without the key and for a text that does not parse
load_window_settings(_storage) ==
    IF _storage = NoneOpt THEN NoneOpt
    ELSE LET text == _storage[1][STORAGE_WINDOW_KEY]
         IN  IF text = NoneOpt THEN NoneOpt ELSE DeserializeWindowSettings(text[1])

\* as load_egui_memory, taking every stored text for the text of a memory
load_egui_memory_Unchecked(_storage) ==
    IF _storage = NoneOpt THEN NoneOpt
    ELSE LET text == _storage[1][STORAGE_EGUI_MEMORY_KEY]
         IN  IF text = NoneOpt THEN NoneOpt
             ELSE Some([areas |-> {text[1][i] : i \in 1..Len(text[1])}])

\* load_egui_memory: the UI memory stored under the memory key, None without
\* a storage, without the key and for a text that does not parse
load_egui_memory(_storage) ==
    IF _storage = NoneOpt THEN NoneOpt
    ELSE LET text == _storage[1][STORAGE_EGUI_MEMORY_KEY]
         IN  IF text = NoneOpt THEN NoneOpt ELSE DeserializeMemory(text[1])

\* create_egui_context: the options and the memory of the context created
create_egui_context(_storage) ==
    LET loaded == load_egui_memory(_storage)
    IN  [max_passes |-> max_passes,
         memory |-> IF loaded = NoneOpt THEN DefaultMemory ELSE loaded[1]]

----------------------------------------------------------------------------
(* The start of a native application *)

\* std::env::var(..).is_err(): the variable is not there, or its value is
\* not valid Unicode
EnvVarIsErr(env) == env # "unicode"

\* init_native: whether its assertion fails, and if not the renderer
\* returned and the options left
init_native(app_name, options, env, screenshot_feature) ==
    IF ~screenshot_feature /\ ~EnvVarIsErr(env)
    THEN [panicked |-> TRUE, renderer |-> NoneOpt, native_options |-> options]
    ELSE [panicked |-> FALSE,
          renderer |-> Some(options.renderer),
          native_options |->
              IF options.viewport.title = NoneOpt
              THEN [options EXCEPT !.viewport.title = Some(app_name)]
              ELSE options]

\* run_native (entry "run") and create_native (entry "create"): whether the
\* call panics, and if not what it starts and with which options
Started(entry, app_name, options, env, screenshot_feature) ==
    LET init == init_native(app_name, options, env, screenshot_feature)
    IN  IF init.panicked
        THEN [panicked |-> TRUE, started |-> NoneOpt, native_options |-> NoneOpt]
        ELSE [panicked |-> FALSE,
              started |-> Some(IF init.renderer[1] = "Glow" THEN entry \o "_glow"
                               ELSE entry \o "_wgpu"),
              native_options |-> Some(init.native_options)]

\* as AppTitle, with the application's name for every window
AppTitle_AlwaysName(title, app_name) == app_name

\* EpiIntegration::new's title of the window: the viewport's title, and
\* the application's name without one
AppTitle(title, app_name) ==
    IF title = NoneOpt THEN app_name ELSE title[1]

\* WindowSettings::initialize_window: the window is given the restored
\* position and size, where the settings hold them, and the maximized flag
initialize_window(window_settings, window) ==
    [position |-> IF window_settings.position = NoneOpt THEN window.position
                  ELSE window_settings.position[1],
     inner_size |-> IF window_settings.inner_size_points = NoneOpt THEN window.inner_size
                    ELSE window_settings.inner_size_points[1],
     maximized |-> window_settings.maximized]

\* as apply_window_settings, with default settings in place of none
apply_window_settings_Default(window, window_settings) ==
    IF window_settings # NoneOpt THEN initialize_window(window_settings[1], window)
    ELSE initialize_window([position |-> Some(<<0, 0>>), inner_size_points |-> NoneOpt,
                            maximized |-> FALSE], window)

\* apply_window_settings: the window after the call
apply_window_settings(window, window_settings) ==
    IF window_settings # NoneOpt THEN initialize_window(window_settings[1], window)
    ELSE window

----------------------------------------------------------------------------
(* The window geometry: sizes and positions are pairs <<x, y>> *)

Min(a, b) == IF a < b THEN a ELSE b

Max(a, b) == IF a > b THEN a ELSE b

\* egui::NumExt::at_most on Vec2: the componentwise minimum
AtMost(size, limit) == <<Min(size[1], limit[1]), Min(size[2], limit[2])>>

\* Vec2::max: the componentwise maximum
VecMax(a, b) == <<Max(a[1], b[1]), Max(a[2], b[2])>>

\* PhysicalSize::to_logical: the physical size divided by the scale factor
ToLogical(size, factor) == <<size[1] \div factor, size[2] \div factor>>

\* a monitor's logical size, for a monitor with a current video mode
MonitorPointSize(egui_zoom_factor, monitor) ==
    ToLogical(monitor.video_mode[1], egui_zoom_factor * monitor.scale_factor)

\* The loop of largest_monitor_point_size over the monitors from the given
\* one on: monitors without a current video mode are skipped.
RECURSIVE MaxMonitorSize(_, _, _, _)
MaxMonitorSize(egui_zoom_factor, monitors, from, max_size) ==
    IF from > Len(monitors) THEN max_size
    ELSE LET monitor == monitors[from]
         IN  IF monitor.video_mode = NoneOpt
             THEN MaxMonitorSize(egui_zoom_factor, monitors, from + 1, max_size)
             ELSE MaxMonitorSize(egui_zoom_factor, monitors, from + 1,
                      VecMax(max_size, MonitorPointSize(egui_zoom_factor, monitor)))

\* as largest_monitor_point_size, without the test for a zero maximum
largest_monitor_point_size_NoSentinel(egui_zoom_factor, monitors) ==
    MaxMonitorSize(egui_zoom_factor, monitors, 1, <<0, 0>>)

\* as largest_monitor_point_size, keeping the size of the latest monitor
\* that is wider than the ones before
largest_monitor_point_size_Widest(egui_zoom_factor, monitors) ==
    LET usable == {i \in 1..Len(monitors) : monitors[i].video_mode # NoneOpt}
        width(i) == MonitorPointSize(egui_zoom_factor, monitors[i])[1]
        max_size ==
            IF usable = {} THEN <<0, 0>>
            ELSE MonitorPointSize(egui_zoom_factor,
                     monitors[CHOOSE i \in usable :
                                  \A j \in usable : width(j) <= width(i)])
    IN  IF max_size = <<0, 0>> THEN <<16000, 16000>> ELSE max_size

\* largest_monitor_point_size
largest_monitor_point_size(egui_zoom_factor, monitors) ==
    LET max_size == MaxMonitorSize(egui_zoom_factor, monitors, 1, <<0, 0>>)
    IN  IF max_size = <<0, 0>> THEN <<16000, 16000>> ELSE max_size

\* WindowSettings::clamp_size_to_sane_values: a restored size is cut down
\* to the largest monitor's
clamp_size_to_sane_values(window_settings, largest_monitor_size_points) ==
    IF window_settings.inner_size_points = NoneOpt THEN window_settings
    ELSE [window_settings EXCEPT
              !.inner_size_points =
                  Some(AtMost(@[1], largest_monitor_size_points))]

\* the monitor a restored window is kept on: the first one with a video mode
ActiveMonitor(monitors) ==
    LET usable == {i \in 1..Len(monitors) : monitors[i].video_mode # NoneOpt}
    IN  IF usable = {} THEN NoneOpt
        ELSE Some(monitors[CHOOSE i \in usable : \A j \in usable : i <= j])

\* a coordinate moved into low..high
Clamp(x, low, high) == Max(low, Min(x, high))

\* WindowSettings::clamp_position_to_monitors: a restored position of a
\* window of known size is moved onto the monitor, as far from its far edges
\* as the window's size where the monitor has that much room
clamp_position_to_monitors(window_settings, egui_zoom_factor, monitors) ==
    LET active == ActiveMonitor(monitors)
    IN  IF \/ window_settings.inner_size_points = NoneOpt
           \/ window_settings.position = NoneOpt
           \/ active = NoneOpt
        THEN window_settings
        ELSE LET monitor_size == MonitorPointSize(egui_zoom_factor, active[1])
                 size == window_settings.inner_size_points[1]
                 pos == window_settings.position[1]
             IN  [window_settings EXCEPT
                      !.position =
                          Some(<<Clamp(pos[1], 0, Max(monitor_size[1] - size[1], 0)),
                                 Clamp(pos[2], 0, Max(monitor_size[2] - size[2], 0))>>)]

\* WindowSettings::initialize_viewport_builder: the restored geometry on top
\* of the requested one
initialize_viewport_builder(window_settings, viewport_builder) ==
    LET positioned ==
            IF window_settings.position = NoneOpt THEN viewport_builder
            ELSE [viewport_builder EXCEPT !.position = window_settings.position]
    IN  IF window_settings.inner_size_points = NoneOpt THEN positioned
        ELSE [positioned EXCEPT !.inner_size = window_settings.inner_size_points,
                                !.maximized = window_settings.maximized]

\* as ClampEnabled, with an unspecified option read as false
ClampEnabled_DefaultOff(viewport) ==
    IF viewport.clamp_size_to_monitor_size = NoneOpt THEN FALSE
    ELSE viewport.clamp_size_to_monitor_size[1]

\* viewport_builder.clamp_size_to_monitor_size.unwrap_or(true)
ClampEnabled(viewport) ==
    IF viewport.clamp_size_to_monitor_size = NoneOpt THEN TRUE
    ELSE viewport.clamp_size_to_monitor_size[1]

\* as RestoredGeometry, without the clamp of the size
RestoredGeometry_SizeKept(egui_zoom_factor, monitors, viewport, window_settings) ==
    LET moved == clamp_position_to_monitors(window_settings, egui_zoom_factor, monitors)
    IN  [viewport_builder |-> initialize_viewport_builder(moved, viewport),
         inner_size_points |-> moved.inner_size_points]

\* viewport_builder with window settings: the builder and inner_size_points
RestoredGeometry(egui_zoom_factor, monitors, viewport, window_settings) ==
    LET sized ==
            IF ClampEnabled(viewport)
            THEN clamp_size_to_sane_values(window_settings,
                     largest_monitor_point_size(egui_zoom_factor, monitors))
            ELSE window_settings
        moved == clamp_position_to_monitors(sized, egui_zoom_factor, monitors)
    IN  [viewport_builder |-> initialize_viewport_builder(moved, viewport),
         inner_size_points |-> moved.inner_size_points]

\* viewport_builder without window settings: the builder and inner_size_points
RequestedGeometry(egui_zoom_factor, monitors, viewport) ==
    LET clamped ==
            IF ClampEnabled(viewport) /\ viewport.inner_size # NoneOpt
            THEN [viewport EXCEPT
                      !.inner_size =
                          Some(AtMost(@[1],
                                   largest_monitor_point_size(egui_zoom_factor, monitors)))]
            ELSE viewport
    IN  [viewport_builder |-> clamped, inner_size_points |-> clamped.inner_size]

\* the monitor of the centering, with the first monitor taken also in place of
\* a primary monitor that has no video mode
CenteringMonitor_SkipModeless(events) ==
    LET primary ==
            IF events.primary # NoneOpt THEN Some(events.monitors[events.primary[1]])
            ELSE NoneOpt
        chosen ==
            IF primary # NoneOpt /\ primary[1].video_mode # NoneOpt THEN primary
            ELSE IF events.monitors # << >> THEN Some(events.monitors[1])
            ELSE NoneOpt
    IN  IF chosen = NoneOpt THEN NoneOpt
        ELSE IF chosen[1].video_mode = NoneOpt THEN NoneOpt
        ELSE chosen

\* The monitor and video mode the centering uses: the primary monitor, the
\* first available one without a primary, and none when that monitor has no
\* current video mode.
CenteringMonitor(events) ==
    LET chosen ==
            IF events.primary # NoneOpt THEN Some(events.monitors[events.primary[1]])
            ELSE IF events.monitors # << >> THEN Some(events.monitors[1])
            ELSE NoneOpt
    IN  IF chosen = NoneOpt THEN NoneOpt
        ELSE IF chosen[1].video_mode = NoneOpt THEN NoneOpt
        ELSE chosen

\* the position that centers a window of the given size, if any, on the
\* monitor of the given logical size
CenterPosition(monitor_size, inner_size_points) ==
    LET inner_size ==
            IF inner_size_points = NoneOpt THEN <<800, 600>> ELSE inner_size_points[1]
    IN  <<(monitor_size[1] - inner_size[1]) \div 2,
          (monitor_size[2] - inner_size[2]) \div 2>>

\* as Centering, for a builder without a position only
Centering_UnlessPositioned(egui_zoom_factor, events, centered, geometry) ==
    LET monitor == CenteringMonitor(events)
    IN  IF centered /\ monitor # NoneOpt /\ geometry.viewport_builder.position = NoneOpt
        THEN LET monitor_size == MonitorPointSize(egui_zoom_factor, monitor[1])
             IN  IF 0 < monitor_size[1] /\ 0 < monitor_size[2]
                 THEN [geometry.viewport_builder EXCEPT
                           !.position =
                               Some(CenterPosition(monitor_size,
                                                   geometry.inner_size_points))]
                 ELSE geometry.viewport_builder
        ELSE geometry.viewport_builder

\* viewport_builder's centering of the geometry computed so far
Centering(egui_zoom_factor, events, centered, geometry) ==
    LET monitor == CenteringMonitor(events)
    IN  IF centered /\ monitor # NoneOpt
        THEN LET monitor_size == MonitorPointSize(egui_zoom_factor, monitor[1])
             IN  IF 0 < monitor_size[1] /\ 0 < monitor_size[2]
                 THEN [geometry.viewport_builder EXCEPT
                           !.position =
                               Some(CenterPosition(monitor_size,
                                                   geometry.inner_size_points))]
                 ELSE geometry.viewport_builder
        ELSE geometry.viewport_builder

\* the builder viewport_builder has computed when it comes to the hook
BeforeHook(egui_zoom_factor, events, options, window_settings) ==
    LET geometry ==
            IF window_settings # NoneOpt
            THEN RestoredGeometry(egui_zoom_factor, events.monitors,
                                  options.viewport, window_settings[1])
            ELSE RequestedGeometry(egui_zoom_factor, events.monitors, options.viewport)
    IN  Centering(egui_zoom_factor, events, options.centered, geometry)

\* the builder a window_builder hook returns for the one it is given
ApplyWindowBuilder(hook, viewport_builder) ==
    CASE hook = "shift" ->
            [viewport_builder EXCEPT
                 !.position = IF @ = NoneOpt THEN Some(<<0, 0>>)
                              ELSE Some(<<@[1][1] + 10, @[1][2] + 10>>)]

\* as viewport_builder, with the hook taken and not called
viewport_builder_HookDropped(egui_zoom_factor, events, options, window_settings) ==
    [returned |-> BeforeHook(egui_zoom_factor, events, options, window_settings),
     hook_given |-> NoneOpt,
     native_options |-> [options EXCEPT !.window_builder = NoneOpt]]

\* as viewport_builder, with the hook called and left in the options
viewport_builder_HookKept(egui_zoom_factor, events, options, window_settings) ==
    LET computed == BeforeHook(egui_zoom_factor, events, options, window_settings)
        hook == options.window_builder
    IN  [returned |-> IF hook # NoneOpt THEN ApplyWindowBuilder(hook[1], computed)
                      ELSE computed,
         hook_given |-> IF hook # NoneOpt THEN Some(computed) ELSE NoneOpt,
         native_options |-> options]

\* viewport_builder: the builder returned, the builder the hook was given
\* (if there is a hook) and the options left
viewport_builder(egui_zoom_factor, events, options, window_settings) ==
    LET computed == BeforeHook(egui_zoom_factor, events, options, window_settings)
        hook == options.window_builder
    IN  [returned |-> IF hook # NoneOpt THEN ApplyWindowBuilder(hook[1], computed)
                      ELSE computed,
         hook_given |-> IF hook # NoneOpt THEN Some(computed) ELSE NoneOpt,
         native_options |-> [options EXCEPT !.window_builder = NoneOpt]]

----------------------------------------------------------------------------
(* The record of the latest operation *)

NoCall ==
    [op |-> "new",
     is_root |-> FALSE, close_requested |-> FALSE, seen_close_requested |-> FALSE,
     canceled |-> FALSE, close_before |-> FALSE, calls |-> << >>,
     pending_before |-> DefaultFullOutput, pass_output |-> DefaultFullOutput,
     returned |-> DefaultFullOutput,
     follows_single |-> FALSE,
     set_visible |-> FALSE,
     saved |-> FALSE, elapsed |-> 0,
     had_storage |-> FALSE, storage_ops |-> << >>,
     window |-> NoneOpt, persist_egui_memory |-> FALSE,
     first_frame_before |-> TRUE,
     loaded |-> NoneOpt,
     response |-> NoneOpt,
     hook |-> "keep", raw_time |-> "none", hook_saw_time |-> "none",
     passed_time |-> "none",
     timer_before |-> 0, follows_save |-> FALSE]

\* hist holds: veto_seen, a root pass's close request was cancelled;
\* stray_cancel_seen, a pass without a close request emitted CancelClose;
\* closings, how often close went from false to true (2 stands for more);
\* post_renderings and set_visibles, how often post_rendering and
\* window.set_visible(true) were called (2 stands for more);
\* autosaved_at, when maybe_autosave last saved (the construction time before);
\* written_window, the window settings last written to the storage, if any;
\* left_pressed, on_window_event was given a press of the left button

EmptyStorage == [window |-> NoneOpt, egui |-> NoneOpt, app |-> NoneOpt, durable |-> TRUE]

\* the window settings last written, after the given operations of a save
WrittenWindow(ops, window, before) ==
    IF \E i \in 1..Len(ops) : ops[i] = "set_window"
    THEN Some(WindowSettingsFromWindow(window[1]))
    ELSE before

\* the close request the UI pass sees, after App::raw_input_hook
AfterHook(hook, close_requested) ==
    CASE hook = "keep"        -> close_requested
      [] hook = "clear_close" -> FALSE
      [] hook = "set_close"   -> TRUE
      [] hook = "clear_time"  -> close_requested

\* a time of the raw input, told by what it is against the seconds elapsed
TimeKind(time, elapsed) ==
    CASE time = NoneOpt       -> "none"
      [] time = Some(elapsed) -> "elapsed"
      [] OTHER                -> "other"

\* App::raw_input_hook on the raw input of a pass
raw_input_hook(hook, raw_input) ==
    [close_requested |-> AfterHook(hook, raw_input.close_requested),
     time |-> IF hook = "clear_time" THEN NoneOpt ELSE raw_input.time]

\* the start of update with the hook run first, on the input as it came
PrepareInput_HookFirst(raw_input, elapsed, hook) ==
    LET hooked == raw_input_hook(hook, raw_input)
        stamped == [hooked EXCEPT !.time = Some(elapsed)]
    IN  [close_requested |-> stamped.close_requested,
         hook_saw |-> raw_input,
         passed |-> stamped]

\* the start of update: the time is stamped, the close request is read, and
\* then the hook runs; the pass is given the input the hook leaves
PrepareInput(raw_input, elapsed, hook) ==
    LET stamped == [raw_input EXCEPT !.time = Some(elapsed)]
        close_requested == stamped.close_requested
    IN  [close_requested |-> close_requested,
         hook_saw |-> stamped,
         passed |-> raw_input_hook(hook, stamped)]

\* Option<T> over a set of values
Opt(S) == {NoneOpt} \cup {Some(x) : x \in S}

\* epi::NativeOptions, as far as viewport_builder reads them
NativeOptionsSet ==
    [viewport : [position : Opt(RequestedPositions),
                 inner_size : Opt(RequestedSizes),
                 clamp_size_to_monitor_size : Opt(BOOLEAN),
                 maximized : {FALSE}],
     centered : BOOLEAN,
     window_builder : Opt(WindowBuilderHooks)]

DefaultNativeOptions ==
    [viewport |-> [position |-> NoneOpt, inner_size |-> NoneOpt,
                   clamp_size_to_monitor_size |-> NoneOpt, maximized |-> FALSE],
     centered |-> FALSE,
     window_builder |-> NoneOpt]

\* the event loops: up to MaxMonitors monitors in every order, with no
\* primary monitor or with the one reported last as the primary
EventLoops ==
    UNION {{[monitors |-> ms, primary |-> p] : p \in Opt({Len(ms)} \ {0})} :
              ms \in SeqsUpTo(Monitors, MaxMonitors)}

NoMonitors == [monitors |-> << >>, primary |-> NoneOpt]

\* epi::NativeOptions, as far as init_native and EpiIntegration::new read them
InitNativeOptions == [viewport : [title : Opt(Titles)], renderer : Renderers]

\* what an earlier session's save of the given window left in the storage
SavedStorage(window) ==
    ApplyStorageOps(EmptyStorage, SaveOps(Some(window), TRUE, TRUE), Some(window))

\* a storage whose texts are not the texts of window settings and of a memory
CorruptStorage ==
    [EmptyStorage EXCEPT ![STORAGE_WINDOW_KEY] = Some(<<9>>),
                         ![STORAGE_EGUI_MEMORY_KEY] = Some(<<"?">>)]

\* the storages an application starts with
StartStorages ==
    {NoneOpt, Some(EmptyStorage), Some(CorruptStorage)}
    \cup {Some(SavedStorage(w)) : w \in Windows}

\* before any geometry computation
NotBuilt ==
    [op |-> "none", egui_zoom_factor |-> 1, options |-> DefaultNativeOptions,
     window_settings |-> NoneOpt, returned |-> DefaultNativeOptions.viewport,
     hook_given |-> NoneOpt, size |-> <<0, 0>>, after_hook |-> FALSE]

----------------------------------------------------------------------------
(* The results of event handlers *)

\* winit::window::WindowId
WindowIds == {"root_window", "other_window"}

\* the accesskit_winit::ActionRequest of an ActionRequested event
ActionRequests == {"focus", "click"}

\* accesskit_winit::WindowEvent
AccesskitWindowEvents ==
    {[kind |-> "InitialTreeRequested", request |-> NoneOpt],
     [kind |-> "AccessibilityDeactivated", request |-> NoneOpt]}
    \cup {[kind |-> "ActionRequested", request |-> Some(r)] : r \in ActionRequests}

\* the variants of EventResult, with the window id and the instant they carry
EventResult(kind, window_id, at) == [kind |-> kind, window_id |-> window_id, at |-> at]

EventResultKinds == {"Wait", "RepaintNow", "RepaintNext", "RepaintAt", "Save", "Exit"}

\* the handler with the results of the two repaints exchanged
on_accesskit_window_event_Exchanged(window_id, event) ==
    CASE event.kind = "InitialTreeRequested" ->
           [calls |-> <<"Context::enable_accesskit">>,
            forwarded |-> NoneOpt,
            result |-> EventResult("RepaintNext", Some(window_id), NoneOpt)]
      [] event.kind = "ActionRequested" ->
           [calls |-> <<"egui_winit::State::on_accesskit_action_request">>,
            forwarded |-> event.request,
            result |-> EventResult("RepaintNow", Some(window_id), NoneOpt)]
      [] event.kind = "AccessibilityDeactivated" ->
           [calls |-> <<"Context::disable_accesskit">>,
            forwarded |-> NoneOpt,
            result |-> EventResult("Wait", NoneOpt, NoneOpt)]

\* on_accesskit_window_event: the calls it makes on egui_winit, the request it
\* forwards, and the EventResult it returns
on_accesskit_window_event(window_id, event) ==
    CASE event.kind = "InitialTreeRequested" ->
           [calls |-> <<"Context::enable_accesskit">>,
            forwarded |-> NoneOpt,
            result |-> EventResult("RepaintNow", Some(window_id), NoneOpt)]
      [] event.kind = "ActionRequested" ->
           [calls |-> <<"egui_winit::State::on_accesskit_action_request">>,
            forwarded |-> event.request,
            result |-> EventResult("RepaintNext", Some(window_id), NoneOpt)]
      [] event.kind = "AccessibilityDeactivated" ->
           [calls |-> <<"Context::disable_accesskit">>,
            forwarded |-> NoneOpt,
            result |-> EventResult("Wait", NoneOpt, NoneOpt)]

----------------------------------------------------------------------------
(* emath: f32 values and Align                                            *)
(* The f32 values of the model are the integers an f32 holds, the two     *)
(* infinities and NaN. Every sum and difference is rounded as f32 rounds  *)
(* it, to 24 significant bits, ties to even. The sizes and bounds used    *)
(* are even, so that a division by 2.0 is exact, as it is in f32.         *)

\* f32::MANTISSA_DIGITS
F32_MANTISSA_DIGITS == 24

RECURSIVE Pow2(_)
Pow2(n) == IF n = 0 THEN 1 ELSE 2 * Pow2(n - 1)

Abs(x) == IF x < 0 THEN 0 - x ELSE x

\* the distance between the f32 values around the magnitude a
RECURSIVE UlpFrom(_, _)
UlpFrom(a, step) ==
    IF a < Pow2(F32_MANTISSA_DIGITS) * step THEN step ELSE UlpFrom(a, 2 * step)

Ulp(a) == UlpFrom(a, 1)

\* the f32 nearest to the integer x, ties to the even significand
RoundF32(x) ==
    LET a == Abs(x)
        step == Ulp(a)
        q == a \div step
        r == a % step
        up == \/ 2 * r > step
              \/ 2 * r = step /\ q % 2 = 1
        m == (IF up THEN q + 1 ELSE q) * step
    IN  IF x < 0 THEN 0 - m ELSE m

Finite(n) == [kind |-> "finite", value |-> n]
INFINITY == [kind |-> "inf", value |-> 0]
NEG_INFINITY == [kind |-> "neg_inf", value |-> 0]
NAN == [kind |-> "nan", value |-> 0]

IsFinite(x) == x.kind = "finite"

FNeg(x) ==
    CASE x.kind = "finite"  -> Finite(0 - x.value)
      [] x.kind = "inf"     -> NEG_INFINITY
      [] x.kind = "neg_inf" -> INFINITY
      [] x.kind = "nan"     -> NAN

\* a + b in f32
FAdd(a, b) ==
    CASE a.kind = "nan" \/ b.kind = "nan" -> NAN
      [] a.kind = "finite" /\ b.kind = "finite" -> Finite(RoundF32(a.value + b.value))
      [] a.kind = "finite" -> b
      [] b.kind = "finite" -> a
      [] a.kind = b.kind -> a
      [] OTHER -> NAN

\* a - b in f32
FSub(a, b) == FAdd(a, FNeg(b))

\* a / 2.0 in f32, for the even values and the infinities
FHalf(a) == IF IsFinite(a) THEN Finite(a.value \div 2) ELSE a

\* emath::Rangef::new
Rangef(min, max) == [min |-> min, max |-> max]

Aligns == {"Min", "Center", "Max"}

\* a value whose neighbours in f32 are 4 apart
LargeValue == Pow2(F32_MANTISSA_DIGITS + 1)

\* the sizes and the bounds of the ranges given to align_size_within_range
AlignSizes == {Finite(2), Finite(20), Finite(LargeValue), INFINITY}
AlignBounds == {Finite(10), Finite(20), Finite(LargeValue), INFINITY, NEG_INFINITY}

\* the alignment with the centre taken for the left edge of the result
align_size_within_range_NotHalved(self, size, range) ==
    LET min == range.min
        max == range.max
    IN  IF FSub(max, min) = INFINITY /\ size = INFINITY
        THEN range
        ELSE CASE self = "Min" -> Rangef(min, FAdd(min, size))
               [] self = "Center" ->
                    IF size = INFINITY
                    THEN Rangef(NEG_INFINITY, INFINITY)
                    ELSE LET left == FSub(FHalf(FAdd(min, max)), size)
                         IN  Rangef(left, FAdd(left, size))
               [] self = "Max" -> Rangef(FSub(max, size), max)

\* Align::align_size_within_range
align_size_within_range(self, size, range) ==
    LET min == range.min
        max == range.max
    IN  IF FSub(max, min) = INFINITY /\ size = INFINITY
        THEN range
        ELSE CASE self = "Min" -> Rangef(min, FAdd(min, size))
               [] self = "Center" ->
                    IF size = INFINITY
                    THEN Rangef(NEG_INFINITY, INFINITY)
                    ELSE LET left == FSub(FHalf(FAdd(min, max)), FHalf(size))
                         IN  Rangef(left, FAdd(left, size))
               [] self = "Max" -> Rangef(FSub(max, size), max)

\* the examples of the documentation of align_size_within_range
AlignExamples ==
    LET R(a, b) == Rangef(a, b)
        F(n) == Finite(n)
        A(self, size, range) == align_size_within_range(self, size, range)
    IN  /\ A("Min", F(2), R(F(10), F(20))) = R(F(10), F(12))
        /\ A("Center", F(2), R(F(10), F(20))) = R(F(14), F(16))
        /\ A("Max", F(2), R(F(10), F(20))) = R(F(18), F(20))
        /\ A("Min", F(20), R(F(10), F(20))) = R(F(10), F(30))
        /\ A("Center", F(20), R(F(10), F(20))) = R(F(5), F(25))
        /\ A("Max", F(20), R(F(10), F(20))) = R(F(0), F(20))
        /\ A("Min", INFINITY, R(F(10), F(20))) = R(F(10), INFINITY)
        /\ A("Center", INFINITY, R(F(10), F(20))) = R(NEG_INFINITY, INFINITY)
        /\ A("Max", INFINITY, R(F(10), F(20))) = R(NEG_INFINITY, F(20))
        /\ A("Min", F(2), R(F(10), INFINITY)) = R(F(10), F(12))
        /\ A("Center", F(2), R(F(10), INFINITY)) = R(INFINITY, INFINITY)
        /\ A("Max", F(2), R(F(10), INFINITY)) = R(INFINITY, INFINITY)
        /\ A("Min", F(2), R(NEG_INFINITY, F(20))) = R(NEG_INFINITY, NEG_INFINITY)
        /\ A("Center", F(2), R(NEG_INFINITY, F(20))) = R(NEG_INFINITY, NEG_INFINITY)
        /\ A("Max", F(2), R(NEG_INFINITY, F(20))) = R(F(18), F(20))
        /\ \A self \in Aligns :
              /\ A(self, INFINITY, R(F(10), INFINITY)) = R(F(10), INFINITY)
              /\ A(self, INFINITY, R(NEG_INFINITY, F(20))) = R(NEG_INFINITY, F(20))

----------------------------------------------------------------------------
(* eframe::Error                                                          *)
(* A text is the sequence of its words, the pieces between spaces. Every  *)
(* literal that opens an arm of Display ends with a space, so one literal *)
(* is the beginning of another text exactly when its words are.           *)

\* the variants of eframe::Error, with every feature of a native build
ErrorVariants ==
    {"AppCreation", "Winit", "WinitEventLoop", "Glutin", "NoGlutinConfigs",
     "OpenGL", "Wgpu"}

\* the error types with an `impl From<..> for Error`
SourceErrorTypes ==
    {"winit::error::RequestError", "winit::error::EventLoopError",
     "glutin::error::Error", "egui_glow::PainterError", "egui_wgpu::WgpuError"}

\* the Display texts of the wrapped errors
InnerTexts ==
    {<<"boom">>, <<"winit", "error:", "boom">>, <<"error:", "lost">>,
     <<"WGPU", "error:", "egui_glow:", "boom">>}

\* the Debug text of a glutin::config::ConfigTemplate, a single word here
ConfigTemplates == {"ConfigTemplate{..}"}

\* a value of eframe::Error; the template is that of NoGlutinConfigs
Error(variant, template, err) == [variant |-> variant, template |-> template, err |-> err]

Errors ==
    {Error(v, NoneOpt, e) : v \in ErrorVariants \ {"NoGlutinConfigs"}, e \in InnerTexts}
    \cup {Error("NoGlutinConfigs", Some(t), e) : t \in ConfigTemplates, e \in InnerTexts}

\* impl From<..> for Error
From(source_type, err) ==
    CASE source_type = "winit::error::RequestError"   -> Error("Winit", NoneOpt, err)
      [] source_type = "winit::error::EventLoopError" -> Error("WinitEventLoop", NoneOpt, err)
      [] source_type = "glutin::error::Error"         -> Error("Glutin", NoneOpt, err)
      [] source_type = "egui_glow::PainterError"      -> Error("OpenGL", NoneOpt, err)
      [] source_type = "egui_wgpu::WgpuError"         -> Error("Wgpu", NoneOpt, err)

\* the literals with the two winit variants opening alike
DisplayLiteral_WinitAlike(variant) ==
    CASE variant = "AppCreation"     -> <<"app", "creation", "error:">>
      [] variant = "Winit"           -> <<"winit", "error:">>
      [] variant = "WinitEventLoop"  -> <<"winit", "error:", "EventLoopError:">>
      [] variant = "Glutin"          -> <<"glutin", "error:">>
      [] variant = "NoGlutinConfigs" ->
           <<"Found", "no", "glutin", "configs", "matching", "the", "template:">>
      [] variant = "OpenGL"          -> <<"egui_glow:">>
      [] variant = "Wgpu"            -> <<"WGPU", "error:">>

\* the literal a Display arm writes before its first argument
DisplayLiteral(variant) ==
    CASE variant = "AppCreation"     -> <<"app", "creation", "error:">>
      [] variant = "Winit"           -> <<"winit", "error:">>
      [] variant = "WinitEventLoop"  -> <<"winit", "EventLoopError:">>
      [] variant = "Glutin"          -> <<"glutin", "error:">>
      [] variant = "NoGlutinConfigs" ->
           <<"Found", "no", "glutin", "configs", "matching", "the", "template:">>
      [] variant = "OpenGL"          -> <<"egui_glow:">>
      [] variant = "Wgpu"            -> <<"WGPU", "error:">>

\* impl Display for Error
Display(error) ==
    IF error.variant = "NoGlutinConfigs"
    THEN DisplayLiteral(error.variant) \o <<error.template[1] \o ".", "Error:">>
         \o error.err
    ELSE DisplayLiteral(error.variant) \o error.err

\* text begins with the words of prefix
StartsWith(text, prefix) ==
    /\ Len(prefix) <= Len(text)
    /\ SubSeq(text, 1, Len(prefix)) = prefix

----------------------------------------------------------------------------
(* The event-loop driver and its WinitApp                                 *)
(* The trait declares the calls; the order in which the event loop makes  *)
(* them is that of the driver contract: Uninitialized, Resumed, Running   *)
(* and Suspended in turn, Destroyed at shutdown.                          *)

\* the methods of WinitApp the event loop calls on an event
DriverCalls ==
    {"resumed", "suspended", "run_ui_and_paint", "window_event", "device_event",
     "save", "save_and_destroy"}

DriverStates == {"Uninitialized", "Resumed", "Running", "Suspended", "Destroyed"}

\* the Err of a crate::Result<EventResult>
Failed == EventResult("Err", NoneOpt, NoneOpt)

\* crate::Result<EventResult>: what a call returns at the instant t
CallResults(t) ==
    {EventResult("Wait", NoneOpt, NoneOpt), EventResult("Save", NoneOpt, NoneOpt),
     EventResult("Exit", NoneOpt, NoneOpt), Failed}
    \cup {EventResult(k, Some(w), NoneOpt) : k \in {"RepaintNow", "RepaintNext"},
                                            w \in WindowIds}
    \cup {EventResult("RepaintAt", Some(w), Some(t)) : w \in WindowIds}

\* the driver before the event loop runs
NotStarted ==
    [state |-> "Uninitialized", redraw |-> {}, save_due |-> FALSE,
     exiting |-> FALSE, painted |-> FALSE, destroys |-> 0,
     last_call |-> "none", state_before |-> "Uninitialized", path |-> << >>,
     result |-> NoneOpt]

\* the calls with a repaint made for a suspended application as well
Legal_PaintWhileSuspended(d, call) ==
    /\ d.state # "Destroyed"
    /\ d.exiting => call = "save_and_destroy"
    /\ CASE call = "resumed"          -> d.state \in {"Uninitialized", "Suspended"}
         [] call = "suspended"        -> d.state = "Running"
         [] call = "run_ui_and_paint" -> d.state \in {"Running", "Suspended"}
         [] call = "save"             -> d.state \in {"Running", "Suspended"} /\ d.save_due
         [] call = "save_and_destroy" -> d.state \in {"Running", "Suspended"}
         [] OTHER                     -> d.state \in {"Running", "Suspended"}

\* the calls the event loop makes in a state of the driver: none once the
\* application is destroyed, only the shutdown once the loop is exiting,
\* window and device events only after the first resume, a repaint only
\* while running
Legal(d, call) ==
    /\ d.state # "Destroyed"
    /\ d.exiting => call = "save_and_destroy"
    /\ CASE call = "resumed"          -> d.state \in {"Uninitialized", "Suspended"}
         [] call = "suspended"        -> d.state = "Running"
         [] call = "run_ui_and_paint" -> d.state = "Running"
         [] call = "save"             -> d.state \in {"Running", "Suspended"} /\ d.save_due
         [] call = "save_and_destroy" -> d.state \in {"Running", "Suspended"}
         [] OTHER                     -> d.state \in {"Running", "Suspended"}

\* the states a call takes the driver through
Path(state, call) ==
    CASE call = "resumed" /\ state = "Uninitialized" -> <<state, "Resumed", "Running">>
      [] call = "resumed" /\ state # "Uninitialized" -> <<state, "Running">>
      [] call = "suspended"                          -> <<state, "Suspended">>
      [] call = "save_and_destroy"                   -> <<state, "Destroyed">>
      [] OTHER                                       -> <<state>>

\* the event loop acting on a result: a repaint is scheduled for the window,
\* a save is made due, the loop is left on Exit and on an error
ActOn(d, result) ==
    [d EXCEPT !.redraw = IF result.kind \in {"RepaintNow", "RepaintNext", "RepaintAt"}
                         THEN @ \cup {result.window_id[1]} ELSE @,
              !.save_due = @ \/ result.kind = "Save",
              !.exiting = @ \/ result.kind \in {"Exit", "Err"}]

\* the driver after a call that returned the given result
AfterCall(d, call, result) ==
    LET path == Path(d.state, call)
        acted == IF result = NoneOpt THEN d ELSE ActOn(d, result[1])
    IN  [acted EXCEPT !.state = path[Len(path)],
                      !.last_call = call,
                      !.state_before = d.state,
                      !.path = path,
                      !.result = result,
                      !.painted = @ \/ call = "run_ui_and_paint",
                      !.save_due = IF call = "save" THEN FALSE ELSE @,
                      !.destroys = IF call = "save_and_destroy" THEN @ + 1 ELSE @]

----------------------------------------------------------------------------
(* The state machine *)

\* the start of a window's creation, for the given options and event loops
Creation(options, event_loops) ==
    /\ native_options \in options
    /\ event_loop \in event_loops
    /\ built = NotBuilt
    /\ driver = NotStarted

\* the history of a session that begins
NoHistory ==
    [veto_seen |-> FALSE, stray_cancel_seen |-> FALSE, closings |-> 0,
     post_renderings |-> 0, set_visibles |-> 0, autosaved_at |-> 0,
     written_window |-> NoneOpt, left_pressed |-> FALSE]

\* as New, with the autosave timer set to a time long before the construction
New_TimerLongAgo(storages, persist_windows, intervals) ==
    /\ now = 0
    /\ close = FALSE
    /\ is_first_frame = TRUE
    /\ can_drag_window = FALSE
    /\ last_auto_save = 0 - (MaxInterval + 1)
    /\ beginning = 0
    /\ pending_full_output = DefaultFullOutput
    /\ cpu_usage = NoneOpt
    /\ storage \in storages
    /\ persist_window \in persist_windows
    /\ auto_save_interval \in intervals
    /\ window_visible = FALSE
    /\ last = NoCall
    /\ hist = NoHistory

\* EpiIntegration::new, at time 0, for an application with the given
\* storages, window persistence options and autosave intervals
New(storages, persist_windows, intervals) ==
    /\ now = 0
    /\ close = FALSE
    /\ is_first_frame = TRUE
    /\ can_drag_window = FALSE
    /\ last_auto_save = 0
    /\ beginning = 0
    /\ pending_full_output = DefaultFullOutput
    /\ cpu_usage = NoneOpt
    /\ storage \in storages
    /\ persist_window \in persist_windows
    /\ auto_save_interval \in intervals
    /\ window_visible = FALSE
    /\ last = NoCall
    /\ hist = NoHistory

\* time passes between two operations
Tick ==
    /\ now < MaxTime
    /\ now' = now + 1
    /\ UNCHANGED <<close, is_first_frame, can_drag_window, last_auto_save, beginning,
                   pending_full_output, cpu_usage, storage, persist_window,
                   auto_save_interval, window_visible, last, hist>>
    /\ UNCHANGED creation_vars

\* EpiIntegration::update, for the given callbacks, hooks and pass counts, and
\* for a raw input that comes with one of the given times
Update(callbacks, hooks, pass_counts, raw_times) ==
    \E viewport_ui_cb \in callbacks,
       raw_close_requested \in BOOLEAN,
       raw_time \in raw_times,
       hook \in hooks,
       passes \in pass_counts,
       full_output \in PassOutputs :
        LET input == PrepareInput([close_requested |-> raw_close_requested,
                                   time |-> raw_time],
                                  now - beginning, hook)
            close_requested == input.close_requested
            calls == <<"App::raw_input_hook">> \o UiCalls(viewport_ui_cb, passes)
            is_root_viewport == viewport_ui_cb = None
            canceled == "CancelClose" \in full_output.commands
            appended == AppendFullOutput(pending_full_output, full_output)
            taken == TakePending(appended)
        IN  /\ close' = CloseDecision(is_root_viewport, close_requested, canceled)
            /\ pending_full_output' = taken.left
            /\ last' = [NoCall EXCEPT
                   !.op = "update",
                   !.is_root = is_root_viewport,
                   !.close_requested = raw_close_requested,
                   !.seen_close_requested = input.passed.close_requested,
                   !.hook = hook,
                   !.raw_time = TimeKind(raw_time, now - beginning),
                   !.hook_saw_time = TimeKind(input.hook_saw.time, now - beginning),
                   !.passed_time = TimeKind(input.passed.time, now - beginning),
                   !.canceled = canceled,
                   !.close_before = close, !.timer_before = last_auto_save,
                   !.calls = calls,
                   !.pending_before = pending_full_output,
                   !.pass_output = full_output,
                   !.returned = taken.returned,
                   !.follows_single = (last.op = "update"
                                       /\ Len(last.pass_output.meshes) = 1)]
            /\ hist' = [hist EXCEPT
                   !.veto_seen = @ \/ (is_root_viewport /\ raw_close_requested /\ canceled),
                   !.stray_cancel_seen = @ \/ (canceled /\ ~raw_close_requested),
                   !.closings = IF ~close /\ close' THEN Min(@ + 1, 2) ELSE @]
            /\ UNCHANGED <<now, is_first_frame, can_drag_window, last_auto_save,
                           beginning, cpu_usage, storage, persist_window,
                           auto_save_interval, window_visible>>
            /\ UNCHANGED creation_vars

\* EpiIntegration::on_window_event
OnWindowEvent ==
    \E event \in WindowEvents :
        /\ can_drag_window' = CanDragAfter(can_drag_window, event)
        /\ last' = [NoCall EXCEPT
               !.op = "on_window_event", !.close_before = close,
               !.timer_before = last_auto_save,
               !.calls = <<"egui_winit::State::on_window_event">>,
               !.response = Some(TranslatorResponse(event)),
               !.pending_before = pending_full_output,
               !.first_frame_before = is_first_frame]
        /\ hist' = [hist EXCEPT !.left_pressed = @ \/ event = "LeftPressed"]
        /\ UNCHANGED <<now, close, is_first_frame, last_auto_save, beginning,
                       pending_full_output, cpu_usage, storage, persist_window,
                       auto_save_interval, window_visible>>
        /\ UNCHANGED creation_vars

\* EpiIntegration::pre_update
PreUpdate ==
    /\ last' = [NoCall EXCEPT !.op = "pre_update", !.close_before = close,
                              !.timer_before = last_auto_save]
    /\ UNCHANGED <<now, close, is_first_frame, can_drag_window, last_auto_save,
                   beginning, pending_full_output, cpu_usage, storage, persist_window,
                   auto_save_interval, window_visible, hist>>
    /\ UNCHANGED creation_vars

\* EpiIntegration::report_frame_time
ReportFrameTime ==
    \E seconds \in FrameTimes :
        /\ cpu_usage' = Some(seconds)
        /\ last' = [NoCall EXCEPT !.op = "report_frame_time", !.close_before = close,
                                  !.timer_before = last_auto_save]
        /\ UNCHANGED <<now, close, is_first_frame, can_drag_window, last_auto_save,
                       beginning, pending_full_output, storage, persist_window,
                       auto_save_interval, window_visible, hist>>
        /\ UNCHANGED creation_vars

\* EpiIntegration::post_rendering
PostRendering ==
    LET taken == TakeFirstFrame(is_first_frame)
    IN  /\ is_first_frame' = taken.left
        /\ window_visible' = IF taken.was THEN TRUE ELSE window_visible
        /\ last' = [NoCall EXCEPT !.op = "post_rendering", !.close_before = close,
                                  !.timer_before = last_auto_save,
                                  !.set_visible = taken.was]
        /\ hist' = [hist EXCEPT
               !.post_renderings = Min(@ + 1, 2),
               !.set_visibles = IF taken.was THEN Min(@ + 1, 2) ELSE @]
        /\ UNCHANGED <<now, close, can_drag_window, last_auto_save, beginning,
                       pending_full_output, cpu_usage, storage, persist_window,
                       auto_save_interval>>
        /\ UNCHANGED creation_vars

\* EpiIntegration::maybe_autosave, for the given windows and the given answers
\* of App::persist_egui_memory
MaybeAutosave(windows, persist_egui_memories) ==
    \E window \in windows, persist_egui_memory \in persist_egui_memories :
        LET due == AutosaveDue(now, last_auto_save, auto_save_interval)
            saved == Save(storage, window, persist_egui_memory)
        IN  /\ storage' = IF due THEN saved.storage ELSE storage
            /\ last_auto_save' = TimerAfter(due, now, last_auto_save)
            /\ last' = [NoCall EXCEPT
                   !.op = "maybe_autosave", !.close_before = close,
                   !.timer_before = last_auto_save,
                   !.saved = due,
                   !.follows_save = (last.op = "save"),
                   !.elapsed = now - hist.autosaved_at,
                   !.had_storage = (storage # NoneOpt),
                   !.storage_ops = IF due THEN saved.ops ELSE << >>,
                   !.window = window,
                   !.persist_egui_memory = persist_egui_memory,
                   !.pending_before = pending_full_output,
                   !.first_frame_before = is_first_frame]
            /\ hist' = [hist EXCEPT
                   !.autosaved_at = IF due THEN now ELSE @,
                   !.written_window = IF due THEN WrittenWindow(saved.ops, window, @)
                                      ELSE @]
            /\ UNCHANGED <<now, close, is_first_frame, can_drag_window, beginning,
                           pending_full_output, cpu_usage, persist_window,
                           auto_save_interval, window_visible>>
            /\ UNCHANGED creation_vars

\* EpiIntegration::save, for the given windows and the given answers of
\* App::persist_egui_memory
SaveCall(windows, persist_egui_memories) ==
    \E window \in windows, persist_egui_memory \in persist_egui_memories :
        LET saved == Save(storage, window, persist_egui_memory)
        IN  /\ storage' = saved.storage
            /\ last' = [NoCall EXCEPT
                   !.op = "save", !.close_before = close,
                   !.timer_before = last_auto_save,
                   !.saved = TRUE,
                   !.had_storage = (storage # NoneOpt),
                   !.storage_ops = saved.ops,
                   !.window = window,
                   !.persist_egui_memory = persist_egui_memory,
                   !.pending_before = pending_full_output,
                   !.first_frame_before = is_first_frame]
            /\ hist' = [hist EXCEPT
                   !.written_window = WrittenWindow(saved.ops, window, @)]
            /\ UNCHANGED <<now, close, is_first_frame, can_drag_window, last_auto_save,
                           beginning, pending_full_output, cpu_usage, persist_window,
                           auto_save_interval, window_visible>>
            /\ UNCHANGED creation_vars

\* load_window_settings on the integration's storage, as the next start of
\* the application calls it
LoadWindowSettings ==
    /\ last' = [NoCall EXCEPT
           !.op = "load_window_settings", !.close_before = close,
           !.timer_before = last_auto_save,
           !.had_storage = (storage # NoneOpt),
           !.loaded = load_window_settings(storage)]
    /\ UNCHANGED <<now, close, is_first_frame, can_drag_window, last_auto_save,
                   beginning, pending_full_output, cpu_usage, storage, persist_window,
                   auto_save_interval, window_visible, hist>>
    /\ UNCHANGED creation_vars

\* viewport_builder, called with the options and the event loop of the
\* creation, for every zoom factor, with and without restored settings
ViewportBuilderCall ==
    \E egui_zoom_factor \in ZoomFactors, window_settings \in Opt(RestoredSettings) :
        LET call == viewport_builder(egui_zoom_factor, event_loop, native_options,
                                     window_settings)
        IN  /\ native_options' = call.native_options
            /\ built' = [NotBuilt EXCEPT
                   !.op = "viewport_builder",
                   !.egui_zoom_factor = egui_zoom_factor,
                   !.options = native_options,
                   !.window_settings = window_settings,
                   !.returned = call.returned,
                   !.hook_given = call.hook_given,
                   !.after_hook = (built.op = "viewport_builder"
                                   /\ built.hook_given # NoneOpt)]
            /\ UNCHANGED <<event_loop, driver>>
            /\ UNCHANGED integration_vars

\* largest_monitor_point_size on the monitors of the event loop
LargestMonitorPointSizeCall ==
    \E egui_zoom_factor \in ZoomFactors :
        /\ built' = [NotBuilt EXCEPT
               !.op = "largest_monitor_point_size",
               !.egui_zoom_factor = egui_zoom_factor,
               !.size = largest_monitor_point_size(egui_zoom_factor,
                                                   event_loop.monitors)]
        /\ UNCHANGED <<native_options, event_loop, driver>>
        /\ UNCHANGED integration_vars

\* run_native and create_native, for every application name, environment
\* and build
StartNative ==
    \E entry \in {"run", "create"}, app_name \in AppNames,
       env \in ScreenshotEnvs, screenshot_feature \in BOOLEAN :
        /\ built' = [op |-> entry \o "_native",
                     app_name |-> app_name,
                     env |-> env,
                     screenshot_feature |-> screenshot_feature,
                     result |-> Started(entry, app_name, native_options, env,
                                        screenshot_feature)]
        /\ UNCHANGED <<native_options, event_loop, driver>>
        /\ UNCHANGED integration_vars

\* the title EpiIntegration::new gives to its AppTitleIconSetter
NewAppTitle ==
    \E app_name \in AppNames :
        /\ built' = [op |-> "EpiIntegration::new",
                     app_name |-> app_name,
                     title |-> AppTitle(native_options.viewport.title, app_name)]
        /\ UNCHANGED <<native_options, event_loop, driver>>
        /\ UNCHANGED integration_vars

\* load_egui_memory on the storage the application starts with
LoadEguiMemory ==
    /\ built' = [op |-> "load_egui_memory", loaded |-> load_egui_memory(storage)]
    /\ UNCHANGED <<native_options, event_loop, driver>>
    /\ UNCHANGED integration_vars

\* create_egui_context on the storage the application starts with
CreateEguiContext ==
    /\ built' = [op |-> "create_egui_context", egui_ctx |-> create_egui_context(storage)]
    /\ UNCHANGED <<native_options, event_loop, driver>>
    /\ UNCHANGED integration_vars

\* apply_window_settings, on a new window or, again, on the window of the
\* call before
ApplyWindowSettings ==
    \E new_window \in Windows, window_settings \in Opt(RestoredSettings) :
        LET again == built.op = "apply_window_settings"
            window == IF again THEN built.window ELSE new_window
        IN  /\ built' = [op |-> "apply_window_settings",
                         window_settings |-> window_settings,
                         window_before |-> window,
                         window |-> apply_window_settings(window, window_settings),
                         repeated |-> IF again THEN built.window_settings = window_settings
                                      ELSE FALSE]
            /\ UNCHANGED <<native_options, event_loop, driver>>
            /\ UNCHANGED integration_vars

----------------------------------------------------------------------------
(* The frame: every operation of the integration, with every kind of UI  *)
(* pass, for an application without a storage; the saves are given no    *)
(* window and no UI memory to write. The saves on a storage follow below. *)

Init ==
    /\ New({NoneOpt}, {TRUE}, {MaxInterval})
    /\ Creation({DefaultNativeOptions}, {NoMonitors})

Next ==
    \/ Tick
    \/ Update({None, "cb"}, {"keep"}, 1..max_passes, {NoneOpt})
    \/ OnWindowEvent
    \/ PreUpdate
    \/ ReportFrameTime
    \/ PostRendering
    \/ MaybeAutosave({NoneOpt}, {FALSE})
    \/ SaveCall({NoneOpt}, {FALSE})

Spec == Init /\ [][Next]_vars

(* Persistence: the saves with every window and every opt-in, for every   *)
(* configuration of the application.                                      *)

OptWindows == {NoneOpt} \cup {Some(w) : w \in Windows}

InitSave ==
    /\ New({NoneOpt, Some(EmptyStorage)}, BOOLEAN, 0..MaxInterval)
    /\ Creation({DefaultNativeOptions}, {NoMonitors})

NextSave ==
    \/ Tick
    \/ MaybeAutosave(OptWindows, BOOLEAN)
    \/ SaveCall(OptWindows, BOOLEAN)
    \/ LoadWindowSettings

SpecSave == InitSave /\ [][NextSave]_vars

(* The window's creation: the geometry computed for every option, every   *)
(* event loop and every restored settings, before the integration runs.   *)

InitViewport ==
    /\ New({NoneOpt}, {TRUE}, {MaxInterval})
    /\ Creation(NativeOptionsSet, EventLoops)

NextViewport ==
    \/ ViewportBuilderCall
    \/ LargestMonitorPointSizeCall

SpecViewport == InitViewport /\ [][NextViewport]_vars

(* The start of the application: the entry points, the loads from the     *)
(* storage of an earlier session, and the restored geometry applied to    *)
(* the window.                                                            *)

InitStart ==
    /\ New(StartStorages, {TRUE}, {MaxInterval})
    /\ Creation(InitNativeOptions, {NoMonitors})

NextStart ==
    \/ StartNative
    \/ NewAppTitle
    \/ LoadWindowSettings
    \/ LoadEguiMemory
    \/ CreateEguiContext
    \/ ApplyWindowSettings

SpecStart == InitStart /\ [][NextStart]_vars

(* The values computed without the integration: the result of an          *)
(* AccessKit event, an aligned range, and an error with its text.         *)

\* on_accesskit_window_event, for a window and an event of AccessKit
OnAccesskitWindowEvent ==
    \E window_id \in WindowIds, event \in AccesskitWindowEvents :
        /\ built' = [op |-> "on_accesskit_window_event",
                     window_id |-> window_id,
                     event |-> event,
                     outcome |-> on_accesskit_window_event(window_id, event)]
        /\ UNCHANGED <<native_options, event_loop, driver>>
        /\ UNCHANGED integration_vars

\* Align::align_size_within_range, for a size and a range
AlignSizeWithinRange ==
    \E self \in Aligns, size \in AlignSizes, min \in AlignBounds, max \in AlignBounds :
        /\ built' = [op |-> "align_size_within_range",
                     self |-> self,
                     size |-> size,
                     range |-> Rangef(min, max),
                     result |-> align_size_within_range(self, size, Rangef(min, max))]
        /\ UNCHANGED <<native_options, event_loop, driver>>
        /\ UNCHANGED integration_vars

\* the `?` operator on an error of a dependency: From, and the text of the result
ErrorFrom ==
    \E source_type \in SourceErrorTypes, err \in InnerTexts :
        /\ built' = [op |-> "from",
                     source_type |-> source_type,
                     err |-> err,
                     error |-> From(source_type, err),
                     text |-> Display(From(source_type, err))]
        /\ UNCHANGED <<native_options, event_loop, driver>>
        /\ UNCHANGED integration_vars

\* the text of an error, however it was made
ErrorDisplay ==
    \E error \in Errors :
        /\ built' = [op |-> "display", error |-> error, text |-> Display(error)]
        /\ UNCHANGED <<native_options, event_loop, driver>>
        /\ UNCHANGED integration_vars

InitValues ==
    /\ New({NoneOpt}, {TRUE}, {MaxInterval})
    /\ Creation({DefaultNativeOptions}, {NoMonitors})

NextValues ==
    \/ OnAccesskitWindowEvent
    \/ AlignSizeWithinRange
    \/ ErrorFrom
    \/ ErrorDisplay

SpecValues == InitValues /\ [][NextValues]_vars

(* The event loop: the calls it makes on its WinitApp, from the first     *)
(* resume to the shutdown.                                                *)

\* a call that returns crate::Result<EventResult>, acted upon by the loop
DriverCall(call) ==
    /\ Legal(driver, call)
    /\ \E result \in CallResults(now) :
          driver' = AfterCall(driver, call, Some(result))
    /\ UNCHANGED <<native_options, event_loop, built>>
    /\ UNCHANGED integration_vars

CallResumed == DriverCall("resumed")

CallSuspended == DriverCall("suspended")

CallWindowEvent == DriverCall("window_event")

CallDeviceEvent == DriverCall("device_event")

\* the repaint of a window for which one is scheduled
CallRunUiAndPaint ==
    /\ Legal(driver, "run_ui_and_paint")
    /\ \E window_id \in driver.redraw, result \in CallResults(now) :
          driver' = AfterCall([driver EXCEPT !.redraw = @ \ {window_id}],
                              "run_ui_and_paint", Some(result))
    /\ UNCHANGED <<native_options, event_loop, built>>
    /\ UNCHANGED integration_vars

CallSave ==
    /\ Legal(driver, "save")
    /\ driver' = AfterCall(driver, "save", NoneOpt)
    /\ UNCHANGED <<native_options, event_loop, built>>
    /\ UNCHANGED integration_vars

CallSaveAndDestroy ==
    /\ Legal(driver, "save_and_destroy")
    /\ driver' = AfterCall(driver, "save_and_destroy", NoneOpt)
    /\ UNCHANGED <<native_options, event_loop, built>>
    /\ UNCHANGED integration_vars

InitDriver ==
    /\ New({NoneOpt}, {TRUE}, {MaxInterval})
    /\ Creation({DefaultNativeOptions}, {NoMonitors})

NextDriver ==
    \/ CallResumed
    \/ CallSuspended
    \/ CallWindowEvent
    \/ CallDeviceEvent
    \/ CallRunUiAndPaint
    \/ CallSave
    \/ CallSaveAndDestroy

SpecDriver == InitDriver /\ [][NextDriver]_vars

(* The passes with every hook: what App::raw_input_hook does to the input *)
(* after update has read it.                                              *)

InitUpdate ==
    /\ New({NoneOpt}, {TRUE}, {MaxInterval})
    /\ Creation({DefaultNativeOptions}, {NoMonitors})

NextUpdate ==
    \/ Tick
    \/ Update({None, "cb"}, Hooks, {1}, {NoneOpt, Some(now + 1)})

SpecUpdate == InitUpdate /\ [][NextUpdate]_vars

----------------------------------------------------------------------------
(* Helpers of the properties *)

AfterUpdate == last.op = "update"

AfterRootCloseRequest == AfterUpdate /\ last.is_root /\ last.close_requested

HookCall == "App::raw_input_hook"

Count(seq, x) == Cardinality({i \in 1..Len(seq) : seq[i] = x})

\* the steps of save in their order
SaveOrder == <<"set_window", "set_egui", "App::save", "flush">>

Position(op) == CHOOSE i \in 1..Len(SaveOrder) : SaveOrder[i] = op

\* ops holds steps of save, each at most once, in the order of SaveOrder
InSaveOrder(ops) ==
    /\ \A i \in 1..Len(ops) : ops[i] \in {SaveOrder[j] : j \in 1..Len(SaveOrder)}
    /\ \A i, j \in 1..Len(ops) : i < j => Position(ops[i]) < Position(ops[j])

SavedToStorage ==
    last.op \in {"save", "maybe_autosave"} /\ last.saved /\ last.had_storage

----------------------------------------------------------------------------
(* The properties *)

\* C1: a root pass with a close request whose output holds CancelClose
\* leaves should_close() false; a later root pass with a close request and
\* no CancelClose sets it, and that is the flag's one transition to true.
C1_CloseVeto ==
    /\ AfterRootCloseRequest /\ last.canceled /\ ~last.close_before => ~close
    /\ AfterRootCloseRequest /\ ~last.canceled => close /\ hist.closings = 1

C1_Witness ==
    /\ AfterRootCloseRequest /\ ~last.canceled
    /\ hist.veto_seen /\ ~last.close_before /\ close

\* C2: the close flag starts false, goes from false to true at most once,
\* and no operation of the integration clears it.
C2_CloseMonotonic ==
    /\ last.op = "new" => ~close
    /\ last.close_before => close
    /\ hist.closings <= 1
    /\ close <=> hist.closings = 1

C2_Witness ==
    /\ AfterRootCloseRequest /\ last.canceled
    /\ last.close_before /\ close
    /\ ~is_first_frame /\ can_drag_window /\ cpu_usage # NoneOpt

\* C3: an update given a child-viewport callback leaves the close flag as
\* it was, whatever its input and output.
C3_ChildPassNeverCloses ==
    AfterUpdate /\ ~last.is_root => close = last.close_before

C3_Witness ==
    /\ AfterUpdate /\ ~last.is_root
    /\ last.close_requested /\ ~last.canceled /\ ~close

\* C4: every close request is decided by the output of the pass that
\* carries it: a pass without a close request leaves the flag as it was,
\* also after a veto, and a pass with one closes exactly when its own
\* output holds no CancelClose, also after a CancelClose that came without
\* a close request.
C4_VetoDoesNotPersist ==
    AfterUpdate /\ last.is_root =>
        /\ ~last.close_requested => close = last.close_before
        /\ last.close_requested /\ ~last.canceled => close
        /\ last.close_requested /\ last.canceled => close = last.close_before

C4_Witness ==
    /\ AfterUpdate /\ last.is_root /\ ~last.close_requested
    /\ hist.veto_seen /\ hist.stray_cancel_seen /\ ~close

\* C5 as stated: every update calls the hook once and then the UI closure
\* once (App::update for the root, the callback for a child).
C5_Original ==
    AfterUpdate =>
        last.calls = <<HookCall, IF last.is_root THEN "App::update" ELSE "viewport_ui_cb">>

\* C5: every update calls App::raw_input_hook exactly once, first, and then
\* runs one Context::run, whose closure is invoked once per pass of the run,
\* at least once and at most max_passes times: every invocation is
\* App::update for the root and the callback for a child, never the other.
C5_OneHookThenPasses ==
    AfterUpdate =>
        /\ Len(last.calls) \in 2..(1 + max_passes)
        /\ last.calls[1] = HookCall
        /\ Count(last.calls, HookCall) = 1
        /\ \A i \in 2..Len(last.calls) :
               last.calls[i] = IF last.is_root THEN "App::update" ELSE "viewport_ui_cb"

C5_Witness ==
    AfterUpdate /\ ~last.is_root /\ Len(last.calls) = 1 + max_passes

\* C6: a maybe_autosave call saves if and only if the time since the
\* previous autosave (since construction, before the first) exceeds the
\* autosave interval; so of two calls within one interval of which the
\* first saves, the second does not.
C6_AutosaveDebounce ==
    /\ last_auto_save = hist.autosaved_at
    /\ last.op = "maybe_autosave" =>
           (last.saved <=> last.elapsed > auto_save_interval)

C6_Witness ==
    /\ last.op = "maybe_autosave" /\ ~last.saved
    /\ hist.autosaved_at > 0 /\ last.elapsed <= auto_save_interval

\* C7 as stated: the second of two consecutive single-mesh updates returns
\* a buffer of two meshes.
C7_Original ==
    AfterUpdate /\ last.follows_single /\ Len(last.pass_output.meshes) = 1 =>
        Len(last.returned.meshes) = 2

\* C7: the second of two consecutive single-mesh updates returns a buffer
\* of one mesh, its own pass's: the first update returned and emptied the
\* buffer, so there is nothing left for the append to accumulate onto.
C7_EachUpdateReturnsItsPass ==
    AfterUpdate /\ last.follows_single /\ Len(last.pass_output.meshes) = 1 =>
        last.returned.meshes = last.pass_output.meshes

C7_Witness ==
    /\ AfterUpdate /\ last.follows_single
    /\ Len(last.pass_output.meshes) = 1 /\ Len(last.returned.meshes) = 1

\* C8: the pending buffer is empty after construction and after every
\* operation, and update returns the buffer as it was before the call with
\* the pass's output appended.
C8_PendingEmptyAfterUpdate ==
    /\ pending_full_output = DefaultFullOutput
    /\ AfterUpdate =>
           last.returned = AppendFullOutput(last.pending_before, last.pass_output)

C8_Witness ==
    /\ AfterUpdate /\ last.follows_single
    /\ last.returned.meshes # << >> /\ last.returned.commands # {}
    /\ pending_full_output = DefaultFullOutput

\* C9: window.set_visible(true) is called by the first post_rendering call
\* and by nothing else: at most once, and not before post_rendering.
C9_FirstPaintReveal ==
    /\ hist.set_visibles <= 1
    /\ hist.set_visibles = 1 <=> hist.post_renderings >= 1
    /\ window_visible <=> hist.post_renderings >= 1
    /\ last.op = "post_rendering" => (last.set_visible <=> hist.post_renderings = 1)
    /\ last.op # "post_rendering" => ~last.set_visible

C9_Witness ==
    /\ last.op = "post_rendering" /\ ~last.set_visible
    /\ hist.post_renderings = 2 /\ hist.set_visibles = 1 /\ window_visible

\* C10: a save on a present storage performs its steps in the order window
\* geometry, UI memory, App::save, flush; App::save and flush happen exactly
\* once each and flush is last, whichever of the two writes are skipped.
C10_SaveOrder ==
    SavedToStorage =>
        /\ InSaveOrder(last.storage_ops)
        /\ Count(last.storage_ops, "App::save") = 1
        /\ Count(last.storage_ops, "flush") = 1
        /\ last.storage_ops[Len(last.storage_ops)] = "flush"

C10_Witness ==
    SavedToStorage /\ last.storage_ops = <<"App::save", "flush">>

Performed(op) == \E i \in 1..Len(last.storage_ops) : last.storage_ops[i] = op

\* C11: a save on a present storage writes the window geometry, under the
\* key "window", exactly when a window is given and persist_window is set,
\* and the UI memory, under the key "egui", exactly when
\* App::persist_egui_memory answers true: either write happens without the
\* other.
C11_IndependentWrites ==
    /\ STORAGE_WINDOW_KEY = "window" /\ STORAGE_EGUI_MEMORY_KEY = "egui"
    /\ SavedToStorage =>
           /\ Performed("set_window") <=> (last.window # NoneOpt /\ persist_window)
           /\ Performed("set_egui") <=> last.persist_egui_memory
           /\ Performed("set_window") =>
                  storage[1]["window"] =
                      Some(SerializeWindowSettings(WindowSettingsFromWindow(last.window[1])))
           /\ Performed("set_egui") => storage[1]["egui"] # NoneOpt
    /\ storage # NoneOpt =>
           (storage[1]["window"] # NoneOpt <=> hist.written_window # NoneOpt)

C11_Witness ==
    /\ SavedToStorage /\ last.window # NoneOpt /\ ~persist_window
    /\ Performed("set_egui") /\ ~Performed("set_window")
    /\ storage[1]["egui"] # NoneOpt /\ storage[1]["window"] = NoneOpt

SaveReturned == last.op = "save" \/ (last.op = "maybe_autosave" /\ last.saved)

\* C12: without a storage, save (and so a maybe_autosave that is due) writes
\* nothing, calls neither App::save nor flush, and leaves the close flag, the
\* first-frame flag and the pending output as they were.
C12_NoStorageNoSave ==
    SaveReturned /\ ~last.had_storage =>
        /\ last.storage_ops = << >>
        /\ storage = NoneOpt
        /\ close = last.close_before
        /\ is_first_frame = last.first_frame_before
        /\ pending_full_output = last.pending_before

C12_Witness ==
    /\ last.op = "maybe_autosave" /\ last.saved /\ ~last.had_storage
    /\ close /\ ~is_first_frame /\ last.storage_ops = << >>

\* C13: load_window_settings returns the window settings that the latest
\* save wrote to the same storage, equal field by field, and None when
\* nothing was written: on an empty storage and without a storage.
C13_WindowRoundTrip ==
    last.op = "load_window_settings" =>
        /\ last.loaded = hist.written_window
        /\ ~last.had_storage => last.loaded = NoneOpt
        /\ storage = Some(EmptyStorage) => last.loaded = NoneOpt

C13_Witness ==
    /\ last.op = "load_window_settings"
    /\ last.loaded = Some([position |-> Some(<<10, 20>>),
                           inner_size_points |-> Some(<<800, 600>>),
                           maximized |-> FALSE])

----------------------------------------------------------------------------
(* Helpers of the properties of the window geometry *)

AfterViewportBuilder == built.op = "viewport_builder"

AfterLargestMonitor == built.op = "largest_monitor_point_size"

\* the builder as it was when viewport_builder came to the hook
BuiltBeforeHook ==
    IF built.hook_given = NoneOpt THEN built.returned ELSE built.hook_given[1]

\* the requested clamp option reads as enabled: set, or left unspecified
ClampRequested ==
    built.options.viewport.clamp_size_to_monitor_size \in {NoneOpt, Some(TRUE)}

\* the monitors with a current video mode, and their logical sizes
Usable == {i \in 1..Len(event_loop.monitors) : event_loop.monitors[i].video_mode # NoneOpt}

LogicalSize(i) ==
    LET monitor == event_loop.monitors[i]
        factor == built.egui_zoom_factor * monitor.scale_factor
    IN  <<monitor.video_mode[1][1] \div factor, monitor.video_mode[1][2] \div factor>>

\* the largest monitor's size for the zoom factor of the latest call
Largest == largest_monitor_point_size(built.egui_zoom_factor, event_loop.monitors)

Within(size, limit) == size[1] <= limit[1] /\ size[2] <= limit[2]

\* the monitor the centering of the latest call found, with a video mode
\* of non-zero logical size
CenteringFound ==
    LET monitor == CenteringMonitor(event_loop)
    IN  /\ monitor # NoneOpt
        /\ 0 < MonitorPointSize(built.egui_zoom_factor, monitor[1])[1]
        /\ 0 < MonitorPointSize(built.egui_zoom_factor, monitor[1])[2]

CenteringSize == MonitorPointSize(built.egui_zoom_factor, CenteringMonitor(event_loop)[1])

Half(monitor_size, size) ==
    <<(monitor_size[1] - size[1]) \div 2, (monitor_size[2] - size[2]) \div 2>>

\* C14: without restored settings, a requested inner size S comes out as the
\* componentwise minimum of S and the largest monitor's size M when the
\* clamp is enabled or left unspecified, and as S when it is disabled.
C14_RequestedSizeClamp ==
    AfterViewportBuilder /\ built.window_settings = NoneOpt
    /\ built.options.viewport.inner_size # NoneOpt =>
        LET S == built.options.viewport.inner_size[1]
            M == Largest
        IN  /\ ClampRequested =>
                   BuiltBeforeHook.inner_size = Some(<<Min(S[1], M[1]), Min(S[2], M[2])>>)
            /\ ~ClampRequested => BuiltBeforeHook.inner_size = Some(S)

C14_Witness ==
    /\ AfterViewportBuilder /\ built.window_settings = NoneOpt
    /\ built.options.viewport.clamp_size_to_monitor_size = NoneOpt
    /\ built.options.viewport.inner_size = Some(<<1000, 600>>)
    /\ BuiltBeforeHook.inner_size = Some(<<640, 600>>)

\* C15: when no monitor has a current video mode (no monitor at all, or
\* none with a mode), largest_monitor_point_size returns 16000 x 16000, both
\* at least 10000; it never returns 0 x 0.
C15_Sentinel ==
    AfterLargestMonitor =>
        /\ built.size # <<0, 0>>
        /\ Usable = {} =>
               /\ built.size = <<16000, 16000>>
               /\ built.size[1] >= 10000 /\ built.size[2] >= 10000

C15_Witness ==
    /\ AfterLargestMonitor /\ Len(event_loop.monitors) = MaxMonitors
    /\ Usable = {} /\ built.size = <<16000, 16000>>

\* C16: when some monitor has a current video mode of non-zero size,
\* largest_monitor_point_size returns the largest logical width and the
\* largest logical height (physical size over zoom factor times scale factor)
\* among the monitors with a video mode, each possibly of another monitor;
\* monitors without a video mode do not count.
C16_ComponentwiseMax ==
    AfterLargestMonitor /\ (\E i \in Usable : LogicalSize(i) # <<0, 0>>) =>
        /\ \E i \in Usable : built.size[1] = LogicalSize(i)[1]
        /\ \E i \in Usable : built.size[2] = LogicalSize(i)[2]
        /\ \A i \in Usable : Within(LogicalSize(i), built.size)

C16_Witness ==
    /\ AfterLargestMonitor /\ built.size = <<1920, 1440>>
    /\ \A i \in Usable : LogicalSize(i) # built.size

CenteredSize ==
    IF built.window_settings # NoneOpt /\ built.window_settings[1].inner_size_points = NoneOpt
    THEN <<800, 600>>
    ELSE IF BuiltBeforeHook.inner_size = NoneOpt THEN <<800, 600>>
    ELSE BuiltBeforeHook.inner_size[1]

\* C18: when the options ask for a centered window and the centering finds
\* a monitor of non-zero logical size, the position the hook is given (or
\* that is returned, without a hook) is the centered one, in place of the
\* requested position and of the restored position.
C18_CenteringWins ==
    AfterViewportBuilder /\ built.options.centered /\ CenteringFound =>
        BuiltBeforeHook.position = Some(Half(CenteringSize, CenteredSize))

C18_Witness ==
    /\ AfterViewportBuilder /\ built.options.centered /\ CenteringFound
    /\ built.options.viewport.position = Some(<<100, 100>>)
    /\ built.window_settings # NoneOpt
    /\ built.window_settings[1].position = Some(<<5000, 5000>>)
    /\ BuiltBeforeHook.position = Some(<<560, 240>>)

\* C19: the centered position is ((monitor width - w) / 2, (monitor height
\* - h) / 2), where (w, h) is the inner size the window is built with (the
\* restored or the requested size, after clamping), and 800 x 600 when the
\* builder holds no inner size.
C19_CenteredOnWindowSize ==
    AfterViewportBuilder /\ built.options.centered /\ CenteringFound =>
        LET size == IF BuiltBeforeHook.inner_size = NoneOpt THEN <<800, 600>>
                    ELSE BuiltBeforeHook.inner_size[1]
        IN  BuiltBeforeHook.position = Some(Half(CenteringSize, size))

\* C20: a window_builder hook is called last, with the builder computed by
\* restore, clamp and centering, and what it returns is what
\* viewport_builder returns; without a hook the computed builder is returned.
C20_HookLast ==
    AfterViewportBuilder =>
        LET computed == BeforeHook(built.egui_zoom_factor, event_loop, built.options,
                                   built.window_settings)
            hook == built.options.window_builder
        IN  /\ hook # NoneOpt =>
                   /\ built.hook_given = Some(computed)
                   /\ built.returned = ApplyWindowBuilder(hook[1], computed)
            /\ hook = NoneOpt =>
                   /\ built.hook_given = NoneOpt
                   /\ built.returned = computed

C20_Witness ==
    /\ AfterViewportBuilder /\ built.options.window_builder = Some("shift")
    /\ built.options.centered /\ built.window_settings # NoneOpt
    /\ built.hook_given # NoneOpt
    /\ built.hook_given[1].position = Some(<<560, 240>>)
    /\ built.returned.position = Some(<<570, 250>>)
    /\ native_options.window_builder = NoneOpt

----------------------------------------------------------------------------
(* The properties of construction and of the window events *)

\* C21: a freshly constructed integration has should_close() false, the
\* first frame pending, an empty pending output, no frame time, the drag flag
\* unset, and the elapsed-time origin and the autosave timer both at the
\* construction time; so no maybe_autosave saves before more than one
\* autosave interval has passed since the construction.
C21_FreshIntegration ==
    /\ last.op = "new" =>
           /\ ~close /\ is_first_frame /\ ~can_drag_window
           /\ pending_full_output = DefaultFullOutput
           /\ cpu_usage = NoneOpt
           /\ beginning = 0 /\ last_auto_save = beginning
    /\ last.op = "maybe_autosave" /\ last.saved =>
           now - beginning > auto_save_interval

C21_Witness ==
    /\ last.op = "new" /\ now = auto_save_interval /\ now > 0
    /\ last_auto_save = 0 /\ is_first_frame /\ ~close

\* C23: on_window_event gives the event to the UI input translator, once,
\* and returns its response; of the integration's state it changes the drag
\* flag only, which is true exactly from the first press of the left button
\* on, whatever operations follow; the close flag, the first-frame flag, the
\* autosave timer and the pending output are as before the call.
C23_WindowEventOnlyDragFlag ==
    /\ can_drag_window <=> hist.left_pressed
    /\ last.op = "on_window_event" =>
           /\ last.calls = <<"egui_winit::State::on_window_event">>
           /\ last.response \in {Some(TranslatorResponse(e)) : e \in WindowEvents}
           /\ close = last.close_before
           /\ is_first_frame = last.first_frame_before
           /\ last_auto_save = hist.autosaved_at
           /\ pending_full_output = last.pending_before

C23_Witness ==
    /\ last.op = "on_window_event" /\ can_drag_window
    /\ last.response = Some(TranslatorResponse("LeftReleased"))
    /\ close /\ ~is_first_frame /\ hist.autosaved_at > 0

----------------------------------------------------------------------------
(* The properties of the start *)

AfterStartNative == built.op \in {"run_native", "create_native"}

\* the texts that are not the text of any window settings or memory
UnreadableWindowTexts == {<<9>>}

UnreadableMemoryTexts == {<<"?">>}

\* nothing can be loaded from the storage under the key
Unloadable(key, unreadable) ==
    \/ storage = NoneOpt
    \/ storage # NoneOpt /\ storage[1][key] = NoneOpt
    \/ storage # NoneOpt /\ storage[1][key] # NoneOpt /\ storage[1][key][1] \in unreadable

\* C22: the window's title is the viewport's title when the options set
\* one, unchanged, and the application's name when they set none: in the
\* options that run_native and create_native pass on, which always hold a
\* title, and in the title EpiIntegration::new gives to the window.
C22_TitleFallback ==
    LET title == native_options.viewport.title
        expected == IF title = NoneOpt THEN built.app_name ELSE title[1]
    IN  /\ AfterStartNative /\ ~built.result.panicked =>
               built.result.native_options[1].viewport.title = Some(expected)
        /\ built.op = "EpiIntegration::new" => built.title = expected

C22_Witness ==
    /\ built.op = "EpiIntegration::new"
    /\ native_options.viewport.title = NoneOpt /\ built.title = "my_app"

\* C24: with EFRAME_SCREENSHOT_TO set, in a build without the __screenshot
\* feature, run_native and create_native panic in init_native and start no
\* renderer; with the variable unset they start the renderer that the
\* options name.
C24_ScreenshotGuard ==
    AfterStartNative =>
        /\ built.env # "unset" /\ ~built.screenshot_feature =>
               built.result.panicked /\ built.result.started = NoneOpt
        /\ built.env = "unset" =>
               /\ ~built.result.panicked
               /\ built.result.started =
                      Some(IF built.op = "run_native"
                           THEN (IF native_options.renderer = "Glow" THEN "run_glow"
                                 ELSE "run_wgpu")
                           ELSE (IF native_options.renderer = "Glow" THEN "create_glow"
                                 ELSE "create_wgpu"))

\* C25: load_window_settings and load_egui_memory return None without a
\* storage, without their key in the storage and for a stored text that
\* cannot be read, and create_egui_context then starts from the default
\* memory; what was stored by a save is loaded.
C25_LoadErrorsNonFatal ==
    /\ last.op = "load_window_settings"
       /\ Unloadable(STORAGE_WINDOW_KEY, UnreadableWindowTexts) =>
           last.loaded = NoneOpt
    /\ built.op = "load_egui_memory" =>
           IF Unloadable(STORAGE_EGUI_MEMORY_KEY, UnreadableMemoryTexts)
           THEN built.loaded = NoneOpt
           ELSE built.loaded = Some(AppMemory)
    /\ built.op = "create_egui_context" =>
           IF Unloadable(STORAGE_EGUI_MEMORY_KEY, UnreadableMemoryTexts)
           THEN built.egui_ctx.memory = DefaultMemory
           ELSE built.egui_ctx.memory = AppMemory

C25_Witness ==
    /\ built.op = "create_egui_context" /\ storage = Some(CorruptStorage)
    /\ built.egui_ctx.memory = DefaultMemory
    /\ last.op = "load_window_settings" /\ last.loaded = NoneOpt

\* C28: apply_window_settings again, with the same settings, leaves the
\* window as the first call left it, and apply_window_settings without
\* settings leaves the window as it was.
C28_ApplyIdempotent ==
    built.op = "apply_window_settings" =>
        /\ built.repeated => built.window = built.window_before
        /\ built.window_settings = NoneOpt => built.window = built.window_before

C28_Witness ==
    /\ built.op = "apply_window_settings" /\ built.repeated
    /\ built.window_settings # NoneOpt
    /\ built.window = built.window_before
    /\ built.window \notin Windows

\* C30: on_accesskit_window_event returns one EventResult for every event and
\* repaints nothing itself: InitialTreeRequested gives RepaintNow(window_id),
\* ActionRequested gives RepaintNext(window_id), AccessibilityDeactivated gives
\* Wait; the window id of the result is the one passed in, and the result is
\* never Save, Exit or RepaintAt. Its only calls switch AccessKit on or off or
\* forward the requested action.
AfterAccesskitEvent == built.op = "on_accesskit_window_event"

C30_AccesskitEventResult ==
    AfterAccesskitEvent =>
        LET result == built.outcome.result
            kind == built.event.kind
        IN  /\ result.kind \in EventResultKinds \ {"Save", "Exit", "RepaintAt"}
            /\ kind = "InitialTreeRequested" =>
                  /\ result = EventResult("RepaintNow", Some(built.window_id), NoneOpt)
                  /\ built.outcome.calls = <<"Context::enable_accesskit">>
            /\ kind = "ActionRequested" =>
                  /\ result = EventResult("RepaintNext", Some(built.window_id), NoneOpt)
                  /\ built.outcome.calls =
                         <<"egui_winit::State::on_accesskit_action_request">>
                  /\ built.outcome.forwarded = built.event.request
            /\ kind = "AccessibilityDeactivated" =>
                  /\ result = EventResult("Wait", NoneOpt, NoneOpt)
                  /\ built.outcome.calls = <<"Context::disable_accesskit">>
            /\ result.window_id \in {NoneOpt, Some(built.window_id)}
            /\ Len(built.outcome.calls) = 1

C30_Witness ==
    /\ AfterAccesskitEvent
    /\ built.event.kind = "ActionRequested"
    /\ built.window_id = "other_window"
    /\ built.outcome.result.kind = "RepaintNext"
    /\ built.outcome.result.window_id = Some("other_window")

\* the calls of align_size_within_range with a finite size and a finite range
AfterFiniteAlign ==
    /\ built.op = "align_size_within_range"
    /\ IsFinite(built.size)
    /\ IsFinite(built.range.min)
    /\ IsFinite(built.range.max)

\* x is an f32 value
Exact(x) == RoundF32(x) = x

\* the end of the result that is computed last, before its rounding
UnroundedEnd(self, size, min, max) ==
    CASE self = "Min"    -> min + size
      [] self = "Max"    -> max - size
      [] self = "Center" -> RoundF32((RoundF32(min + max) \div 2) - (size \div 2)) + size

\* every sum and difference of the call is an f32 value
ExactCall(self, size, min, max) ==
    CASE self = "Min"    -> Exact(min + size)
      [] self = "Max"    -> Exact(max - size)
      [] self = "Center" -> /\ Exact(min + max)
                            /\ Exact(((min + max) \div 2) - (size \div 2))
                            /\ Exact(((min + max) \div 2) - (size \div 2) + size)

\* what the claim says of a result: its width, its ends, and the side that
\* takes what does not fit
AlignedAsStated(self, size, min, max, result) ==
    /\ IsFinite(result.min)
    /\ IsFinite(result.max)
    /\ result.max.value - result.min.value = size
    /\ self = "Min" => result = Rangef(Finite(min), Finite(min + size))
    /\ self = "Max" => result = Rangef(Finite(max - size), Finite(max))
    /\ self = "Center" => result.min.value + result.max.value = min + max
    /\ size > max - min /\ max >= min =>
          /\ self = "Min" => result.min.value = min /\ result.max.value > max
          /\ self = "Max" => result.max.value = max /\ result.min.value < min
          /\ self = "Center" =>
                /\ result.min.value < min
                /\ min - result.min.value = result.max.value - max

SubsystemWord(variant) ==
    CASE variant = "AppCreation"     -> "app"
      [] variant = "Winit"           -> "winit"
      [] variant = "WinitEventLoop"  -> "EventLoopError:"
      [] variant = "Glutin"          -> "glutin"
      [] variant = "NoGlutinConfigs" -> "configs"
      [] variant = "OpenGL"          -> "egui_glow:"
      [] variant = "Wgpu"            -> "WGPU"

AfterErrorText == built.op \in {"from", "display"}

\* C26: the seven categories of fatal failure are seven variants of Error;
\* every From conversion wraps its source error in the variant of that source;
\* the Display text of a variant begins with the variant's own literal, which
\* names the subsystem, and with the literal of no other variant, whatever
\* the text of the wrapped error.
C26_ErrorVariants ==
    /\ Cardinality(ErrorVariants) = 7
    /\ built.op = "from" =>
          /\ built.error.err = built.err
          /\ built.source_type = "winit::error::RequestError" =>
                built.error.variant = "Winit"
          /\ built.source_type = "winit::error::EventLoopError" =>
                built.error.variant = "WinitEventLoop"
          /\ built.source_type = "glutin::error::Error" =>
                built.error.variant = "Glutin"
          /\ built.source_type = "egui_glow::PainterError" =>
                built.error.variant = "OpenGL"
          /\ built.source_type = "egui_wgpu::WgpuError" =>
                built.error.variant = "Wgpu"
    /\ AfterErrorText =>
          LET variant == built.error.variant
              literal == DisplayLiteral(variant)
              text == built.text
          IN  /\ variant \in ErrorVariants
              /\ StartsWith(text, literal)
              /\ \E i \in 1..Len(literal) : literal[i] = SubsystemWord(variant)
              /\ \A other \in ErrorVariants \ {variant} :
                    ~StartsWith(text, DisplayLiteral(other))
              /\ SubSeq(text, Len(text) - Len(built.error.err) + 1, Len(text))
                     = built.error.err

C26_Witness ==
    /\ built.op = "from"
    /\ built.source_type = "winit::error::EventLoopError"
    /\ built.err = <<"winit", "error:", "boom">>
    /\ built.error.variant = "WinitEventLoop"
    /\ built.text = <<"winit", "EventLoopError:", "winit", "error:", "boom">>

\* the steps of the driver's lifecycle
LifecycleSteps ==
    {<<"Uninitialized", "Resumed">>, <<"Resumed", "Running">>,
     <<"Running", "Suspended">>, <<"Suspended", "Running">>,
     <<"Running", "Destroyed">>, <<"Suspended", "Destroyed">>}

\* C27: the driver goes Uninitialized -> Resumed -> {Running <-> Suspended} ->
\* Destroyed; run_ui_and_paint is called only in Running; save_and_destroy is
\* called once, at shutdown, and no call of the driver comes after it.
C27_DriverLifecycle ==
    /\ driver.state \in DriverStates
    /\ \A i \in 1..(Len(driver.path) - 1) :
          <<driver.path[i], driver.path[i + 1]>> \in LifecycleSteps
    /\ driver.last_call = "run_ui_and_paint" => driver.state_before = "Running"
    /\ driver.last_call # "none" =>
          /\ driver.last_call \in DriverCalls
          /\ driver.state_before # "Destroyed"
    /\ driver.destroys <= 1
    /\ driver.state = "Destroyed" <=> driver.destroys = 1
    /\ driver.state = "Destroyed" => driver.last_call = "save_and_destroy"
    /\ driver.state = "Uninitialized" => driver.last_call = "none"

C27_Witness ==
    /\ driver.state = "Destroyed"
    /\ driver.state_before = "Suspended"
    /\ driver.painted
    /\ driver.destroys = 1

\* C31: update reads the close request of the raw input before
\* App::raw_input_hook runs: a hook that removes the request does not keep the
\* close flag from being set, and a hook that adds one does not set it. The
\* time is stamped before the hook as well: the hook sees raw_input.time =
\* the seconds since the construction, whatever time the input came with, and
\* what the hook leaves there is what the pass is given.
C31_SampledBeforeHook ==
    AfterUpdate =>
        /\ last.is_root /\ last.close_requested /\ ~last.canceled => close
        /\ ~last.close_requested => close = last.close_before
        /\ last.hook_saw_time = "elapsed"
        /\ last.passed_time = IF last.hook = "clear_time" THEN "none" ELSE "elapsed"
        /\ last.seen_close_requested = AfterHook(last.hook, last.close_requested)

C31_Witness ==
    /\ AfterUpdate
    /\ last.is_root
    /\ last.hook = "clear_close"
    /\ last.close_requested
    /\ ~last.seen_close_requested
    /\ ~last.close_before
    /\ close
    /\ last.raw_time = "other"
    /\ last.hook_saw_time = "elapsed"

\* C32: the autosave timer is changed by maybe_autosave alone, and only in a
\* call whose interval test passes: a direct save leaves it as it was, so a
\* maybe_autosave right after a direct save can save again; a passing call
\* sets the timer to the current time also without a storage, when the save
\* writes nothing; the test is strict, a call at exactly the interval after
\* the timer does not save.
C32_TimerOnlyByAutosave ==
    /\ last_auto_save # last.timer_before => last.op = "maybe_autosave" /\ last.saved
    /\ last.op = "save" => last_auto_save = last.timer_before
    /\ last.op = "maybe_autosave" =>
          /\ last.saved => last_auto_save - last.timer_before > auto_save_interval
          /\ last.saved /\ ~last.had_storage =>
                last.storage_ops = << >> /\ storage = NoneOpt
          /\ ~last.saved =>
                /\ last_auto_save = last.timer_before
                /\ last.elapsed <= auto_save_interval
          /\ last.elapsed = auto_save_interval => ~last.saved

C32_Witness ==
    /\ last.op = "maybe_autosave"
    /\ last.follows_save
    /\ last.saved
    /\ ~last.had_storage
    /\ last.storage_ops = << >>
    /\ last_auto_save = now
    /\ last.timer_before < now

\* C33: viewport_builder takes the window_builder hook out of the options:
\* after every call native_options.window_builder is None and every other
\* field of the options is as it was given, so a second call on the same
\* options gives no builder to a hook and returns the computed builder.
C33_HookConsumed ==
    AfterViewportBuilder =>
        /\ native_options.window_builder = NoneOpt
        /\ native_options = [built.options EXCEPT !.window_builder = NoneOpt]
        /\ built.after_hook =>
              /\ built.options.window_builder = NoneOpt
              /\ built.hook_given = NoneOpt
              /\ built.returned = BeforeHook(built.egui_zoom_factor, event_loop,
                                             built.options, built.window_settings)

C33_Witness ==
    /\ AfterViewportBuilder
    /\ built.after_hook
    /\ built.hook_given = NoneOpt
    /\ built.options.centered
    /\ built.window_settings = NoneOpt
    /\ built.returned.position = Some(<<560, 240>>)

\* the builder the latest call would have computed without centering
Uncentered ==
    BeforeHook(built.egui_zoom_factor, event_loop,
               [built.options EXCEPT !.centered = FALSE], built.window_settings)

\* the monitor the centering looks at: the primary one if there is one, and
\* the first available one if there is no primary monitor
Looked ==
    IF event_loop.primary # NoneOpt THEN Some(event_loop.monitors[event_loop.primary[1]])
    ELSE IF Len(event_loop.monitors) > 0 THEN Some(event_loop.monitors[1])
    ELSE NoneOpt

\* C34: the centering is skipped, and the position computed from the request
\* or from the restored settings is left as it is, when there is no monitor,
\* when the monitor looked at has no current video mode, and when its logical
\* width or height is not positive; the first available monitor is looked at
\* only when there is no primary monitor, not in place of a primary monitor
\* without a video mode.
C34_CenteringSkipped ==
    AfterViewportBuilder /\ built.options.centered =>
        LET skipped ==
              \/ Looked = NoneOpt
              \/ Looked # NoneOpt /\ Looked[1].video_mode = NoneOpt
              \/ /\ Looked # NoneOpt
                 /\ Looked[1].video_mode # NoneOpt
                 /\ \/ MonitorPointSize(built.egui_zoom_factor, Looked[1])[1] <= 0
                    \/ MonitorPointSize(built.egui_zoom_factor, Looked[1])[2] <= 0
        IN  /\ skipped => BuiltBeforeHook = Uncentered
            /\ ~skipped =>
                  BuiltBeforeHook.position =
                      Some(Half(MonitorPointSize(built.egui_zoom_factor, Looked[1]),
                                CenteredSize))

C34_Witness ==
    /\ AfterViewportBuilder /\ built.options.centered
    /\ Len(event_loop.monitors) = 2
    /\ event_loop.primary = Some(2)
    /\ event_loop.monitors[2].video_mode = NoneOpt
    /\ event_loop.monitors[1].video_mode = Some(<<1920, 1080>>)
    /\ built.options.viewport.position = Some(<<100, 100>>)
    /\ built.window_settings = NoneOpt
    /\ BuiltBeforeHook.position = Some(<<100, 100>>)

\* C35: with the size clamp enabled, a centered window and a single monitor
\* with a usable video mode, the centered position is not negative on either
\* axis and the window lies within the monitor (position + size <= monitor
\* size), for every requested size and for an absent one.
C35_CenteredWithinMonitor ==
    /\ AfterViewportBuilder /\ built.options.centered /\ ClampRequested
    /\ built.window_settings = NoneOpt
    /\ Len(event_loop.monitors) = 1 /\ CenteringFound
    => LET position == BuiltBeforeHook.position[1]
           size == IF BuiltBeforeHook.inner_size = NoneOpt THEN <<800, 600>>
                   ELSE BuiltBeforeHook.inner_size[1]
       IN  /\ position[1] >= 0
           /\ position[2] >= 0
           /\ position[1] + size[1] <= CenteringSize[1]
           /\ position[2] + size[2] <= CenteringSize[2]

=============================================================================
